---- MODULE Spec2Model ----
(***************************************************************************)
(* A model of JobDataExtractor (job_extractor_v6_1.py).                    *)
(*                                                                         *)
(* A Python str is a sequence of one-character strings.  A character       *)
(* outside ASCII is written by its code point, "U+00E2".  The regular      *)
(* expressions of the source are data (trees of nodes) run by a            *)
(* backtracking matcher with the priorities of Python's re module.         *)
(***************************************************************************)
EXTENDS Integers, Sequences, FiniteSets, TLC

\* ---------------------------------------------------------------------------
\* The methods of JobDataExtractor and the functions of re and str they use are
\* entered through call, which holds one evaluation of each body: X(...) enters the
\* body X_body(...).
\* ---------------------------------------------------------------------------

RECURSIVE call(_, _)

re_search(pat, text, fl) == call("re_search", <<pat, text, fl>>)

re_match(pat, text, fl) == call("re_match", <<pat, text, fl>>)

re_findall(pat, text, fl) == call("re_findall", <<pat, text, fl>>)

re_split(pat, text, fl) == call("re_split", <<pat, text, fl>>)

re_sub(pat, repl, text, fl) == call("re_sub", <<pat, repl, text, fl>>)

split(s, sep) == call("split", <<s, sep>>)

join(sep, items) == call("join", <<sep, items>>)

replace(s, old, new) == call("replace", <<s, old, new>>)

fix_encoding_issues(text) == call("fix_encoding_issues", <<text>>)

remove_leading_bullets_and_numbers(text) == call("remove_leading_bullets_and_numbers", <<text>>)

clean_text(text) == call("clean_text", <<text>>)

extract_position_summary(job_description0) == call("extract_position_summary", <<job_description0>>)

extract_essential_functions(job_description0) == call("extract_essential_functions", <<job_description0>>)

extract_education(job_description0) == call("extract_education", <<job_description0>>)

extract_work_experience(job_description0) == call("extract_work_experience", <<job_description0>>)

extract_licenses_certifications(job_description0) == call("extract_licenses_certifications", <<job_description0>>)

extract_knowledge_skills_abilities(job_description0) == call("extract_knowledge_skills_abilities", <<job_description0>>)

infer_position_summary(essential_functions, job_title) == call("infer_position_summary", <<essential_functions, job_title>>)

process_single_job_locals(row) == call("process_single_job_locals", <<row>>)

(***************************************************************************)
(* Characters and str methods                                              *)
(***************************************************************************)

\* A string literal of the source as a sequence of characters.
Chars(s) == [i \in 1..Len(s) |-> SubSeq(s, i, i)]

UpperLetters == Chars("ABCDEFGHIJKLMNOPQRSTUVWXYZ")

LowerLetters == Chars("abcdefghijklmnopqrstuvwxyz")

Range(f) == {f[i] : i \in DOMAIN f}

UpperSet == Range(UpperLetters)

LowerSet == Range(LowerLetters)

LetterSet == UpperSet \cup LowerSet

DigitSet == Range(Chars("0123456789"))

\* What \s matches and str.strip() strips: Unicode whitespace, U+00A0 included.
Whitespace == {" ", "\n", "\t", "\r", "\f", "U+00A0"}

LowerMap == [c \in UpperSet |-> LowerLetters[CHOOSE i \in 1..26 : UpperLetters[i] = c]]

\* str.lower() of one character
LowerChar(c) == IF c \in UpperSet THEN LowerMap[c] ELSE c

\* str.lower()
lower(s) == [i \in 1..Len(s) |-> LowerChar(s[i])]

RECURSIVE FirstNonSpace(_, _, _)
\* the least i in lo..hi with s[i] no whitespace, or hi + 1 (by halves)
FirstNonSpace(s, lo, hi) ==
    IF lo > hi THEN hi + 1
    ELSE IF lo = hi THEN (IF s[lo] \in Whitespace THEN hi + 1 ELSE lo)
    ELSE LET left == FirstNonSpace(s, lo, (lo + hi) \div 2)
         IN  IF left <= (lo + hi) \div 2 THEN left
             ELSE FirstNonSpace(s, (lo + hi) \div 2 + 1, hi)

RECURSIVE LastNonSpace(_, _, _)
\* the greatest i in lo..hi with s[i] no whitespace, or lo - 1 (by halves)
LastNonSpace(s, lo, hi) ==
    IF lo > hi THEN lo - 1
    ELSE IF lo = hi THEN (IF s[lo] \in Whitespace THEN lo - 1 ELSE lo)
    ELSE LET right == LastNonSpace(s, (lo + hi) \div 2 + 1, hi)
         IN  IF right > (lo + hi) \div 2 THEN right
             ELSE LastNonSpace(s, lo, (lo + hi) \div 2)

lstrip(s) == SubSeq(s, FirstNonSpace(s, 1, Len(s)), Len(s))

rstrip(s) == SubSeq(s, 1, LastNonSpace(s, 1, Len(s)))

\* str.strip()
strip(s) == SubSeq(s, FirstNonSpace(s, 1, Len(s)), LastNonSpace(s, 1, Len(s)))

\* s[pos:].startswith(p), pos counted from 1
StartsAt(s, pos, p) ==
    /\ pos + Len(p) - 1 <= Len(s)
    /\ \A i \in 1..Len(p) : s[pos + i - 1] = p[i]

\* str.endswith
endswith(s, p) == Len(p) <= Len(s) /\ StartsAt(s, Len(s) - Len(p) + 1, p)

\* sub in s
Contains(s, sub) == \E pos \in 1..(Len(s) + 1) : StartsAt(s, pos, sub)

\* items[:n]
Take(items, n) == SubSeq(items, 1, IF Len(items) < n THEN Len(items) ELSE n)

(***************************************************************************)
(* Regular expressions: the nodes                                          *)
(***************************************************************************)

Lit(s) == [t |-> "lit", s |-> Chars(s)]

LitSeq(cs) == [t |-> "lit", s |-> cs]

Set(S) == [t |-> "set", cs |-> S, neg |-> FALSE]

NotSet(S) == [t |-> "set", cs |-> S, neg |-> TRUE]

Dot == [t |-> "dot"]

\* x{lo,} of a one-character node x, greedy or lazy
Rep(x, lo, greedy) == [t |-> "rep", x |-> x, lo |-> lo, greedy |-> greedy]

Star(x) == Rep(x, 0, TRUE)

Plus(x) == Rep(x, 1, TRUE)

LazyStar(x) == Rep(x, 0, FALSE)

Opt(x) == [t |-> "opt", x |-> x]

Alt(xs) == [t |-> "alt", xs |-> xs]

Cat(xs) == [t |-> "cat", xs |-> xs]

\* the capturing group (every pattern of the source has at most one)
Grp(x) == [t |-> "grp", x |-> x]

\* (?=x)
Look(x) == [t |-> "look", x |-> x]

\* (?<=x) of a one-character node x
Behind(x) == [t |-> "behind", x |-> x]

\* ^ and $ without re.MULTILINE
Bos == [t |-> "bos"]

Eos == [t |-> "eos"]

\* \s and \d
WS == Set(Whitespace)

Digit == Set(DigitSet)

\* the flags of a call: (?i) and re.DOTALL
Flags(ic, dotall) == [ic |-> ic, dotall |-> dotall]

NoFlags == Flags(FALSE, FALSE)

IgnoreCase == Flags(TRUE, FALSE)

IgnoreCaseDotAll == Flags(TRUE, TRUE)

(***************************************************************************)
(* Regular expressions: the matcher                                        *)
(***************************************************************************)

UpperChar(c) ==
    IF c \in LowerSet THEN UpperLetters[CHOOSE i \in 1..26 : LowerLetters[i] = c] ELSE c

EqChar(a, b, fl) == a = b \/ (fl.ic /\ LowerChar(a) = LowerChar(b))

\* whether the one-character node x matches character c
CharMatches(x, c, fl) ==
    CASE x.t = "dot" -> fl.dotall \/ c # "\n"
      [] x.t = "set" ->
            LET in == c \in x.cs \/ (fl.ic /\ (LowerChar(c) \in x.cs \/ UpperChar(c) \in x.cs))
            IN  IF x.neg THEN ~in ELSE in
      [] x.t = "lit" -> Len(x.s) = 1 /\ EqChar(x.s[1], c, fl)

LitAt(text, pos, s, fl) ==
    /\ pos + Len(s) - 1 <= Len(text)
    /\ \A i \in 1..Len(s) : EqChar(text[pos + i - 1], s[i], fl)

RECURSIVE FirstOther(_, _, _, _, _)
\* the least i in lo..hi whose character the one-character node x does not match,
\* or hi + 1
FirstOther(text, x, fl, lo, hi) ==
    IF lo > hi THEN hi + 1
    ELSE IF lo = hi THEN (IF CharMatches(x, text[lo], fl) THEN hi + 1 ELSE lo)
    ELSE LET mid == (lo + hi) \div 2
             left == FirstOther(text, x, fl, lo, mid)
         IN  IF left <= mid THEN left ELSE FirstOther(text, x, fl, mid + 1, hi)

\* how many characters from pos on match the one-character node x
RunLen(text, pos, x, fl) == FirstOther(text, x, fl, pos, Len(text)) - pos

NoMatch == [ok |-> FALSE]

RECURSIVE Match(_, _, _, _, _)
\* Match the nodes of `todo`, in order, from pos; cap is the span of the group so
\* far.  The result is the first success in the order of a backtracking search:
\* the alternatives of an alt node from left to right, the counts of a repetition
\* downwards when greedy and upwards when lazy.  A "try" node is a range lo..hi of
\* such choices still to be tried; the range is searched by halves, the preferred
\* half first, which keeps the nesting of the evaluation logarithmic.
Match(text, fl, todo, pos, cap) ==
    IF todo = <<>> THEN [ok |-> TRUE, end |-> pos, gs |-> cap[1], ge |-> cap[2]]
    ELSE CASE Head(todo).t = "lit" ->
            IF LitAt(text, pos, Head(todo).s, fl)
            THEN Match(text, fl, Tail(todo), pos + Len(Head(todo).s), cap) ELSE NoMatch
      [] Head(todo).t \in {"set", "dot"} ->
            IF pos <= Len(text) /\ CharMatches(Head(todo), text[pos], fl)
            THEN Match(text, fl, Tail(todo), pos + 1, cap) ELSE NoMatch
      [] Head(todo).t = "cat" -> Match(text, fl, Head(todo).xs \o Tail(todo), pos, cap)
      [] Head(todo).t = "alt" ->
            Match(text, fl,
                  <<[t |-> "try", of |-> Head(todo), lo |-> 1, hi |-> Len(Head(todo).xs),
                     up |-> TRUE]>> \o Tail(todo), pos, cap)
      [] Head(todo).t = "opt" ->
            Match(text, fl,
                  <<[t |-> "try", of |-> Head(todo), lo |-> 0, hi |-> 1, up |-> FALSE]>>
                  \o Tail(todo), pos, cap)
      [] Head(todo).t = "rep" ->
            Match(text, fl,
                  <<[t |-> "try", of |-> Head(todo), lo |-> Head(todo).lo,
                     hi |-> RunLen(text, pos, Head(todo).x, fl),
                     up |-> ~Head(todo).greedy]>> \o Tail(todo), pos, cap)
      [] Head(todo).t = "try" ->
            LET n == Head(todo)
                mid == (n.lo + n.hi) \div 2
                low == [n EXCEPT !.hi = mid]
                high == [n EXCEPT !.lo = mid + 1]
                first == Match(text, fl, <<IF n.up THEN low ELSE high>> \o Tail(todo), pos, cap)
            IN  IF n.lo > n.hi THEN NoMatch
                ELSE IF n.lo < n.hi
                THEN IF first.ok THEN first
                     ELSE Match(text, fl, <<IF n.up THEN high ELSE low>> \o Tail(todo), pos, cap)
                ELSE (CASE n.of.t = "alt" ->
                            Match(text, fl, <<n.of.xs[n.lo]>> \o Tail(todo), pos, cap)
                        [] n.of.t = "opt" ->
                            Match(text, fl, (IF n.lo = 1 THEN <<n.of.x>> ELSE <<>>) \o Tail(todo),
                                  pos, cap)
                        [] n.of.t = "rep" -> Match(text, fl, Tail(todo), pos + n.lo, cap))
      [] Head(todo).t = "grp" ->
            Match(text, fl, <<[t |-> "gopen"], Head(todo).x, [t |-> "gclose"]>> \o Tail(todo),
                  pos, cap)
      [] Head(todo).t = "gopen" -> Match(text, fl, Tail(todo), pos, <<pos, cap[2]>>)
      [] Head(todo).t = "gclose" -> Match(text, fl, Tail(todo), pos, <<cap[1], pos>>)
      [] Head(todo).t = "look" ->
            IF Match(text, fl, <<Head(todo).x>>, pos, cap).ok
            THEN Match(text, fl, Tail(todo), pos, cap) ELSE NoMatch
      [] Head(todo).t = "behind" ->
            IF pos > 1 /\ CharMatches(Head(todo).x, text[pos - 1], fl)
            THEN Match(text, fl, Tail(todo), pos, cap) ELSE NoMatch
      [] Head(todo).t = "bos" ->
            IF pos = 1 THEN Match(text, fl, Tail(todo), pos, cap) ELSE NoMatch
      [] Head(todo).t = "eos" ->
            IF pos = Len(text) + 1 \/ (pos = Len(text) /\ text[pos] = "\n")
            THEN Match(text, fl, Tail(todo), pos, cap) ELSE NoMatch

\* pattern.match(text, pos): the match that starts at pos, if any
MatchAt(text, pat, fl, pos) ==
    LET r == Match(text, fl, <<pat>>, pos, <<0, 0>>)
    IN  IF r.ok THEN [ok |-> TRUE, start |-> pos, end |-> r.end,
                      g1 |-> IF r.gs = 0 THEN <<>> ELSE SubSeq(text, r.gs, r.ge - 1)]
        ELSE NoMatch

RECURSIVE SearchIn(_, _, _, _, _)
\* the match with the least start in lo..hi (by halves, left half first)
SearchIn(text, pat, fl, lo, hi) ==
    IF lo > hi THEN NoMatch
    ELSE IF lo = hi THEN MatchAt(text, pat, fl, lo)
    ELSE LET left == SearchIn(text, pat, fl, lo, (lo + hi) \div 2)
         IN  IF left.ok THEN left ELSE SearchIn(text, pat, fl, (lo + hi) \div 2 + 1, hi)

\* re.search(pat, text, flags)
re_search_body(pat, text, fl) == SearchIn(text, pat, fl, 1, Len(text) + 1)

\* re.match(pat, text, flags)
re_match_body(pat, text, fl) == MatchAt(text, pat, fl, 1)

RECURSIVE Scan(_, _, _, _, _, _)
\* The scan that re.findall, re.sub and re.split share, over the start positions
\* lo..hi, when the text before `free` is consumed already: the successive
\* non-overlapping matches, leftmost first, no match empty.
\*   ms:   the matches, in order
\*   free: the first position after the last match
Scan(text, pat, fl, lo, hi, free) ==
    IF lo > hi THEN [ms |-> <<>>, free |-> free]
    ELSE IF lo = hi
    THEN LET r == MatchAt(text, pat, fl, lo)
         IN  IF lo >= free /\ r.ok /\ r.end > lo THEN [ms |-> <<r>>, free |-> r.end]
             ELSE [ms |-> <<>>, free |-> free]
    ELSE LET left == Scan(text, pat, fl, lo, (lo + hi) \div 2, free)
             right == Scan(text, pat, fl, (lo + hi) \div 2 + 1, hi, left.free)
         IN  [ms |-> left.ms \o right.ms, free |-> right.free]

Matches(text, pat, fl) == Scan(text, pat, fl, 1, Len(text), 1).ms

\* re.findall(pat, text, flags) of a pattern with one group: the group of every match
re_findall_body(pat, text, fl) ==
    LET ms == Matches(text, pat, fl) IN [i \in 1..Len(ms) |-> ms[i].g1]

\* the pieces of the text between the matches
Between(text, ms) ==
    [i \in 1..(Len(ms) + 1) |->
        SubSeq(text, IF i = 1 THEN 1 ELSE ms[i - 1].end,
                     IF i = Len(ms) + 1 THEN Len(text) ELSE ms[i].start - 1)]

\* re.split(pat, text) of a pattern without groups whose matches are never empty
re_split_body(pat, text, fl) == Between(text, Matches(text, pat, fl))

RECURSIVE JoinRange(_, _, _, _)
\* sep.join(items[lo..hi]), by halves
JoinRange(sep, items, lo, hi) ==
    IF lo > hi THEN <<>>
    ELSE IF lo = hi THEN items[lo]
    ELSE JoinRange(sep, items, lo, (lo + hi) \div 2) \o sep
         \o JoinRange(sep, items, (lo + hi) \div 2 + 1, hi)

\* sep.join(items)
join_body(sep, items) == JoinRange(sep, items, 1, Len(items))

\* re.sub(pat, repl, text) of a pattern whose matches are never empty
re_sub_body(pat, repl, text, fl) == join(repl, re_split(pat, text, fl))

\* str.split(sep) for a non-empty sep
split_body(s, sep) == re_split(LitSeq(sep), s, NoFlags)

\* str.replace(old, new) for a non-empty old
replace_body(s, old, new) == join(new, split(s, old))

(***************************************************************************)
(* TextNormalizer: fix_encoding_issues, remove_leading_bullets_and_numbers, *)
(* clean_text                                                              *)
(***************************************************************************)

\* self.char_replacements, in the insertion order of the dict literal (the key
\* written twice, on lines 20 and 21, is one entry at its first place).
char_replacements == <<
    << <<"U+00E2", "U+20AC", "U+2122">>, <<"'">> >>,
    << <<"U+00E2", "U+20AC", "U+0153">>, <<"\"">> >>,
    << <<"U+00E2", "U+20AC">>, <<"\"">> >>,
    << <<"U+00E2", "U+20AC", "\"">>, <<"-">> >>,
    << <<"U+00E2", "U+20AC", "U+00A2">>, <<"U+2022">> >>,
    << <<"U+00C3", "U+00A2", "U+00E2", "U+201A", "U+00AC", "U+00E2", "U+201E", "U+00A2">>,
       <<"'">> >>,
    << <<"U+00C3", "U+00A2", "U+00E2", "U+201A", "U+00AC", "\"">>, <<"\"">> >>,
    << <<"U+00C3", "U+00A2", "U+00E2", "U+201A", "U+00AC", "U+00C5", "\"">>, <<"\"">> >>,
    << <<"U+00C3", "U+00A2", "U+00E2", "U+201A", "U+00AC">>, <<"\"">> >>,
    << <<"U+00C3", "U+00A2", "U+00E2", "U+201A", "U+00AC", "U+00C2", "U+00A2">>,
       <<"U+2022">> >>,
    << <<"U+00C3", "U+201A">>, <<>> >>,
    << Chars("&amp;"), <<"&">> >>,
    << Chars("&nbsp;"), <<" ">> >>,
    << <<"U+00A0">>, <<" ">> >>,
    << <<"U+2019">>, <<"'">> >>,
    << <<"U+2018">>, <<"'">> >>,
    << <<"U+201C">>, <<"\"">> >>,
    << <<"U+201D">>, <<"\"">> >>,
    << <<"U+2013">>, <<"-">> >>,
    << <<"U+2014">>, <<"-">> >>,
    << <<"U+2022">>, <<"U+2022">> >>,
    << <<"U+00C3", "U+0192", "U+00C2", "U+00A2", "U+00C3", "U+00A2", "U+00E2", "U+20AC",
         "U+0161", "U+00C2", "U+00AC", "U+00C3", "U+00A2", "U+00E2", "U+20AC", "U+017E",
         "U+00C2", "U+00A2">>, <<"'">> >>,
    << <<"U+00C3", "U+00A2", "U+00E2", "U+201A", "U+00AC", "U+00E2", "U+20AC", "U+00B9">>,
       <<>> >>,
    << <<"U+00C3", "U+0192", "U+00C2", "U+00A2", "U+00C3", "U+00A2", "U+00E2", "U+20AC",
         "U+0161", "U+00C2", "U+00AC">>, <<"\"">> >> >>

RECURSIVE ApplyReplacements(_, _, _)
\* the loop of fix_encoding_issues from entry i on
ApplyReplacements(table, i, text) ==
    \* (nothing is left to replace in an empty text)
    IF i > Len(table) \/ text = <<>> THEN text
    ELSE ApplyReplacements(table, i + 1, replace(text, table[i][1], table[i][2]))

fix_encoding_issues_body(text) ==
    IF text = <<>> THEN <<>> ELSE ApplyReplacements(char_replacements, 1, text)

\* a variant in which a call takes the first entry off the table
char_replacements_popped(table) == Tail(table)

\* a variant in which a call adds an entry to the table
char_replacements_extended(table) == Append(table, << Chars("&lt;"), <<"<">> >>)

\* self.char_replacements after a call of a method: the methods only read the table
\* (fix_encoding_issues iterates over its items), none assigns to it
char_replacements_after_call(table) == table

BulletGlyphs ==
    {"-", "U+2022", "*", "U+25E6", "U+25AA", "U+25AB", "U+25C6", "U+25C7", "U+2192",
     "U+21D2", "U+00B7"}

\* r'^[-•*◦▪▫◆◇→⇒·]\s*'
BulletMarkerRe == Cat(<<Bos, Set(BulletGlyphs), Star(WS)>>)

\* r'^\d+[.)]\s*'
NumberMarkerRe == Cat(<<Bos, Plus(Digit), Set({".", ")"}), Star(WS)>>)

\* r'^[a-zA-Z][.)]\s*'
LetterMarkerRe == Cat(<<Bos, Set(LetterSet), Set({".", ")"}), Star(WS)>>)

\* r'^\([a-zA-Z0-9]+\)\s*'
ParenMarkerRe == Cat(<<Bos, Lit("("), Plus(Set(LetterSet \cup DigitSet)), Lit(")"), Star(WS)>>)

\* r'^[IVXivx]+[.)]\s*'
RomanMarkerRe ==
    Cat(<<Bos, Plus(Set({"I", "V", "X", "i", "v", "x"})), Set({".", ")"}), Star(WS)>>)

\* the five re.sub calls on one line, in the order of the source
StripMarkers(line) ==
    LET l1 == re_sub(BulletMarkerRe, <<>>, line, NoFlags)
        l2 == re_sub(NumberMarkerRe, <<>>, l1, NoFlags)
        l3 == re_sub(LetterMarkerRe, <<>>, l2, NoFlags)
        l4 == re_sub(ParenMarkerRe, <<>>, l3, NoFlags)
    IN  re_sub(RomanMarkerRe, <<>>, l4, NoFlags)

RECURSIVE CleanLines(_)
\* the loop over the lines: the lines kept, cleaned
CleanLines(lines) ==
    IF lines = <<>> THEN <<>>
    ELSE LET line == strip(Head(lines))
         IN  IF line = <<>> THEN CleanLines(Tail(lines))
             ELSE LET cleaned == strip(StripMarkers(line))
                  IN  IF cleaned # <<>> THEN <<cleaned>> \o CleanLines(Tail(lines))
                      ELSE CleanLines(Tail(lines))

remove_leading_bullets_and_numbers_body(text) ==
    IF text = <<>> THEN <<>> ELSE join(<<"\n">>, CleanLines(split(text, <<"\n">>)))

\* r'\s+'
WhitespaceRunRe == Plus(WS)

\* r'\n\s*\n'
BlankLinesRe == Cat(<<Lit("\n"), Star(WS), Lit("\n")>>)

\* r'  +'
SpaceRunRe == Cat(<<Lit(" "), Plus(Set({" "}))>>)

\* a variant that does not replace the runs of white space, so that the lines reach
\* remove_leading_bullets_and_numbers one by one
clean_text_by_lines(text) ==
    IF text = <<>> THEN <<>>
    ELSE LET t1 == fix_encoding_issues(text)
             t3 == re_sub(BlankLinesRe, <<"\n">>, t1, NoFlags)
             t4 == remove_leading_bullets_and_numbers(t3)
             t5 == re_sub(SpaceRunRe, <<" ">>, t4, NoFlags)
         IN  strip(t5)

clean_text_body(text) ==
    IF text = <<>> THEN <<>>
    ELSE LET t1 == fix_encoding_issues(text)
             t2 == re_sub(WhitespaceRunRe, <<" ">>, t1, NoFlags)
             t3 == re_sub(BlankLinesRe, <<"\n">>, t2, NoFlags)
             t4 == remove_leading_bullets_and_numbers(t3)
             t5 == re_sub(SpaceRunRe, <<" ">>, t4, NoFlags)
         IN  strip(t5)

(***************************************************************************)
(* The extractor of version 4: section_patterns and extract_section        *)
(***************************************************************************)

\* The methods of version 4 are entered through call4, as those of version 6.1 are
\* through call; py enters a function of re or str.
RECURSIVE call4(_, _)

py(f, a) == call4("py", <<f, a>>)

fix_encoding_issues_v4(text) == call4("fix_encoding_issues_v4", <<text>>)

remove_leading_bullets(text) == call4("remove_leading_bullets", <<text>>)

clean_text_v4(text) == call4("clean_text_v4", <<text>>)

extract_section(job_description0, section_type) == call4("extract_section", <<job_description0, section_type>>)

\* self.char_replacements of version 4, in the insertion order of the dict literal (a
\* key written twice is one entry, at its first place and with its last value)
char_replacements_v4 == <<
    << <<"U+00E2", "U+20AC", "U+2122">>, <<"'">> >>,
    << <<"U+00E2", "U+20AC", "\"">>, <<"U+2014">> >>,
    << <<"U+00E2", "U+20AC", "U+0153">>, <<"\"">> >>,
    << <<"U+00E2", "U+20AC">>, <<"\"">> >>,
    << <<"U+00C2">>, <<>> >>,
    << <<"U+00E2", "U+20AC", "U+00A2">>, <<"U+2022">> >>,
    << Chars("&amp;"), <<"&">> >>,
    << Chars("&nbsp;"), <<" ">> >>,
    << <<"U+00A0">>, <<" ">> >>,
    << <<"U+2019">>, <<"'">> >>,
    << <<"U+2018">>, <<"'">> >>,
    << <<"U+201C">>, <<"\"">> >>,
    << <<"U+201D">>, <<"\"">> >>,
    << <<"U+2013">>, <<"U+2013">> >>,
    << <<"U+2014">>, <<"U+2014">> >> >>

RECURSIVE ReplaceEach(_, _, _)
\* the loop of fix_encoding_issues from entry i on
ReplaceEach(table, i, text) ==
    IF i > Len(table) \/ text = <<>> THEN text
    ELSE ReplaceEach(table, i + 1, py("replace", <<text, table[i][1], table[i][2]>>))

fix_encoding_issues_v4_body(text) ==
    IF text = <<>> THEN <<>> ELSE ReplaceEach(char_replacements_v4, 1, text)

\* r'^\s*[-•*◦▪▫◆◇→⇒]\s*', r'^\s*\d+[.)]\s*' and r'^\s*[a-zA-Z][.)]\s*'
LeadingMarkerRes == <<
    Cat(<<Bos, Star(WS), Set(BulletGlyphs \ {"U+00B7"}), Star(WS)>>),
    Cat(<<Bos, Star(WS), Plus(Digit), Set({".", ")"}), Star(WS)>>),
    Cat(<<Bos, Star(WS), Set(LetterSet), Set({".", ")"}), Star(WS)>>) >>

RECURSIVE StripLines(_)
\* the loop of remove_leading_bullets over the lines: the lines kept, cleaned
StripLines(lines) ==
    IF lines = <<>> THEN <<>>
    ELSE LET l1 == py("re_sub", <<LeadingMarkerRes[1], <<>>, Head(lines), NoFlags>>)
             l2 == py("re_sub", <<LeadingMarkerRes[2], <<>>, l1, NoFlags>>)
             l3 == py("re_sub", <<LeadingMarkerRes[3], <<>>, l2, NoFlags>>)
         IN  IF strip(l3) # <<>> THEN <<strip(l3)>> \o StripLines(Tail(lines))
             ELSE StripLines(Tail(lines))

remove_leading_bullets_body(text) ==
    IF text = <<>> THEN <<>>
    ELSE py("join", <<<<"\n">>, StripLines(py("split", <<text, <<"\n">>>>))>>)

\* what \w matches: letters, digits, the underscore and the letters beyond ASCII that
\* the texts can hold
WordSet ==
    LetterSet \cup DigitSet
    \cup {"_", "U+00B9", "U+00C2", "U+00C3", "U+00C5", "U+00E2", "U+0153", "U+0161",
          "U+017E", "U+0192"}

\* r'^[^\w]+|[^\w]+$'
ArtifactsRe ==
    Alt(<<Cat(<<Bos, Plus(NotSet(WordSet))>>), Cat(<<Plus(NotSet(WordSet)), Eos>>)>>)

\* clean_text of version 4
clean_text_v4_body(text) ==
    IF text = <<>> THEN <<>>
    ELSE LET t1 == fix_encoding_issues_v4(text)
             t2 == py("re_sub", <<WhitespaceRunRe, <<" ">>, strip(t1), NoFlags>>)
             t3 == remove_leading_bullets(t2)
             t4 == py("re_sub", <<BlankLinesRe, <<"\n">>, t3, NoFlags>>)
             t5 == py("re_sub", <<SpaceRunRe, <<" ">>, t4, NoFlags>>)
             t6 == py("re_sub", <<ArtifactsRe, <<>>, t5, NoFlags>>)
         IN  strip(t6)

\* [A-Z\s]+:
CapsColon == Cat(<<Plus(Set(UpperSet \cup Whitespace)), Lit(":")>>)

\* (?=\n\s*(?:alts))
Before(alts) == Look(Cat(<<Lit("\n"), Star(WS), Alt(alts)>>))

\* (?=\n\s*[A-Z\s]+:|$)
BeforeCapsOrEnd == Look(Alt(<<Cat(<<Lit("\n"), Star(WS), CapsColon>>), Eos>>))

\* (?:\.|;|$)
SentenceEnd == Alt(<<Lit("."), Lit(";"), Eos>>)

\* self.section_patterns of version 4, for the fields position_summary and education
section_patterns ==
    [position_summary |-> <<
        Cat(<<Lit("SUMMARY:"), Star(WS), Grp(LazyStar(Dot)),
              Before(<<CapsColon, Lit("ESSENTIAL"), Lit("EDUCATION"), Lit("QUALIFICATIONS"),
                       Eos>>)>>),
        Cat(<<Lit("Position Summary:"), Star(WS), Grp(LazyStar(Dot)), BeforeCapsOrEnd>>),
        Cat(<<Lit("Job Summary:"), Star(WS), Grp(LazyStar(Dot)), BeforeCapsOrEnd>>),
        Cat(<<Lit("Overview:"), Star(WS), Grp(LazyStar(Dot)), BeforeCapsOrEnd>>),
        Cat(<<Lit("JOB GOAL:"), Star(WS), Grp(LazyStar(Dot)), Before(<<CapsColon, Eos>>)>>) >>,
     education |-> <<
        Cat(<<Lit("EDUCATION AND/OR EXPERIENCE:"), Star(WS), Grp(LazyStar(Dot)),
              Before(<<Lit("CERTIFICATES"), Lit("ESSENTIAL"), CapsColon, Eos>>)>>),
        Cat(<<Lit("QUALIFICATIONS:"), Star(WS), Lit("Education"), Star(NotSet({":"})),
              Lit(":"), Star(WS), Grp(LazyStar(Dot)),
              Before(<<Lit("Experience"), CapsColon, Eos>>)>>),
        Cat(<<Lit("Education Requirement"), Opt(Lit("s")), Lit(":"), Star(WS),
              Grp(LazyStar(Dot)), BeforeCapsOrEnd>>),
        Grp(Cat(<<Alt(<<Lit("Bachelor"), Lit("Master"), Lit("PhD"), Lit("Doctorate"),
                        Lit("Associate"), Lit("High School"), Lit("Degree")>>),
                  LazyStar(Dot), SentenceEnd>>)),
        Grp(Cat(<<Lit("Educational"), LazyStar(Dot),
                  Alt(<<Lit("required"), Lit("preferred"), Lit("desired")>>),
                  LazyStar(Dot), SentenceEnd>>)),
        Grp(Cat(<<Lit("Minimum education"), LazyStar(Dot), SentenceEnd>>)) >>]

RECURSIVE ExtractedParts(_, _, _)
\* the loops of extract_section over the patterns, from pattern i on, and over the
\* matches of each: group 1, or the whole match when the group is empty
ExtractedParts(patterns, i, job_description) ==
    IF i > Len(patterns) THEN <<>>
    ELSE LET ms == Matches(job_description, patterns[i], IgnoreCaseDotAll)
         IN  [k \in 1..Len(ms) |->
                 IF ms[k].g1 # <<>> THEN ms[k].g1
                 ELSE SubSeq(job_description, ms[k].start, ms[k].end - 1)]
             \o ExtractedParts(patterns, i + 1, job_description)

RECURSIVE UniqueParts(_, _)
\* the loop over extracted_parts: the cleaned parts that are not empty and not in
\* unique_parts already
UniqueParts(parts, unique_parts) ==
    IF parts = <<>> THEN unique_parts
    ELSE LET cleaned_part == clean_text_v4(Head(parts))
         IN  IF cleaned_part # <<>> /\ cleaned_part \notin Range(unique_parts)
             THEN UniqueParts(Tail(parts), Append(unique_parts, cleaned_part))
             ELSE UniqueParts(Tail(parts), unique_parts)

extract_section_body(job_description0, section_type) ==
    IF job_description0 = <<>> \/ section_type \notin DOMAIN section_patterns THEN <<>>
    ELSE LET job_description == fix_encoding_issues_v4(job_description0)
             extracted_parts ==
                 ExtractedParts(section_patterns[section_type], 1, job_description)
         IN  IF extracted_parts = <<>> THEN <<>>
             ELSE clean_text_v4(py("join", <<<<" ">>, UniqueParts(extracted_parts, <<>>)>>))

call4(f, a) ==
    CASE f = "py" -> call(a[1], a[2])
      [] f = "fix_encoding_issues_v4" -> fix_encoding_issues_v4_body(a[1])
      [] f = "remove_leading_bullets" -> remove_leading_bullets_body(a[1])
      [] f = "clean_text_v4" -> clean_text_v4_body(a[1])
      [] f = "extract_section" -> extract_section_body(a[1], a[2])

(***************************************************************************)
(* SectionExtractor: the extract_* functions                               *)
(***************************************************************************)

\* the alternatives A|B|... of literal words
Words(ws) == [i \in 1..Len(ws) |-> Lit(ws[i])]

\* [A-Z\s]+:
CapsHeader == Cat(<<Plus(Set(UpperSet \cup Whitespace)), Lit(":")>>)

\* (?=\n\s*(?:alts)): the boundary of a section
Boundary(alts) == Look(Cat(<<Lit("\n"), Star(WS), Alt(alts)>>))

\* X? after a word: QUALIFICATIONS? is Word("QUALIFICATION", "S")
WordOpt(w, c) == Cat(<<Lit(w), Opt(Lit(c))>>)

\* summary_patterns of extract_position_summary
summary_patterns == <<
    Cat(<<Opt(Cat(<<Lit("POSITION"), Plus(WS)>>)), Lit("SUMMARY"), Opt(Lit(":")), Star(WS),
          Grp(LazyStar(Dot)),
          Boundary(Words(<<"EDUCATION", "EXPERIENCE", "QUALIFICATIONS", "ESSENTIAL",
                           "RESPONSIBILITIES">>) \o <<CapsHeader, Eos>>)>>),
    Cat(<<Lit("JOB"), Plus(WS), Lit("GOAL"), Opt(Lit(":")), Star(WS),
          Grp(LazyStar(Dot)),
          Boundary(Words(<<"EDUCATION", "EXPERIENCE", "QUALIFICATIONS", "ESSENTIAL">>)
                   \o <<CapsHeader, Eos>>)>>),
    Cat(<<Lit("OVERVIEW"), Opt(Lit(":")), Star(WS),
          Grp(LazyStar(Dot)),
          Boundary(Words(<<"EDUCATION", "EXPERIENCE", "QUALIFICATIONS", "ESSENTIAL">>)
                   \o <<CapsHeader, Eos>>)>>),
    Cat(<<Lit("JOB"), Plus(WS), Lit("SUMMARY"), Opt(Lit(":")), Star(WS),
          Grp(LazyStar(Dot)),
          Boundary(Words(<<"EDUCATION", "EXPERIENCE", "QUALIFICATIONS", "ESSENTIAL">>)
                   \o <<CapsHeader, Eos>>)>> ) >>

\* len(summary) > 30
SummaryMinLen == 30

\* len(paragraph) > 50
ParagraphMinLen == 50

RECURSIVE SummaryFromPatterns(_, _, _)
\* Strategy 1, from pattern i on: [found, value]
SummaryFromPatterns(patterns, i, job_description) ==
    IF i > Len(patterns) THEN [found |-> FALSE]
    ELSE LET match == re_search(patterns[i], job_description, IgnoreCaseDotAll)
             summary == clean_text(match.g1)
         IN  IF match.ok /\ strip(match.g1) # <<>> /\ Len(summary) > SummaryMinLen
             THEN [found |-> TRUE, value |-> summary]
             ELSE SummaryFromPatterns(patterns, i + 1, job_description)

\* r'^[A-Z\s]+:'
CapsHeaderRe == Cat(<<Bos, CapsHeader>>)

SummaryWords == <<"responsible for", "position", "role", "duties">>

RECURSIVE SummaryFromParagraphs(_)
\* Strategy 2 over the paragraphs given
SummaryFromParagraphs(paragraphs) ==
    IF paragraphs = <<>> THEN <<>>
    ELSE LET paragraph == strip(Head(paragraphs))
         IN  IF /\ Len(paragraph) > ParagraphMinLen
                /\ ~re_match(CapsHeaderRe, paragraph, NoFlags).ok
                /\ \E i \in 1..Len(SummaryWords) :
                       Contains(lower(paragraph), Chars(SummaryWords[i]))
             THEN clean_text(paragraph)
             ELSE SummaryFromParagraphs(Tail(paragraphs))

extract_position_summary_body(job_description0) ==
    LET job_description == fix_encoding_issues(job_description0)
        s1 == SummaryFromPatterns(summary_patterns, 1, job_description)
    IN  IF s1.found THEN s1.value
        ELSE SummaryFromParagraphs(Take(split(job_description, <<"\n", "\n">>), 3))

\* function_patterns of extract_essential_functions
function_patterns == <<
    Cat(<<Lit("ESSENTIAL"), Plus(WS),
          Opt(Cat(<<Lit("DUTIES"), Plus(WS), Lit("AND"), Plus(WS)>>)),
          Alt(Words(<<"FUNCTIONS", "RESPONSIBILITIES">>)),
          Star(NotSet({":"})), Opt(Lit(":")), Star(WS),
          Grp(LazyStar(Dot)),
          Boundary(<<Lit("SUPERVISORY"), WordOpt("QUALIFICATION", "S"),
                     WordOpt("CERTIFICATE", "S"), Lit("COMMUNICATION"), Lit("PHYSICAL"),
                     Cat(<<Lit("WORK"), Plus(WS), Lit("ENVIRONMENT")>>),
                     Lit("EDUCATION"), Lit("EXPERIENCE"), Eos>>)>>),
    Cat(<<Opt(Alt(<<Cat(<<Lit("KEY"), Plus(WS)>>), Cat(<<Lit("PRIMARY"), Plus(WS)>>),
                    Cat(<<Lit("MAJOR"), Plus(WS)>>)>>)),
          Lit("RESPONSIBILITIES"),
          Star(NotSet({":"})), Opt(Lit(":")), Star(WS),
          Grp(LazyStar(Dot)),
          Boundary(<<WordOpt("QUALIFICATION", "S"), WordOpt("REQUIREMENT", "S"),
                     Lit("EDUCATION"), Lit("EXPERIENCE"), Lit("SUPERVISORY"), Eos>>)>>),
    Cat(<<Opt(Alt(<<Cat(<<Lit("PRIMARY"), Plus(WS)>>), Cat(<<Lit("MAJOR"), Plus(WS)>>)>>)),
          Lit("DUTIES"),
          Star(NotSet({":"})), Opt(Lit(":")), Star(WS),
          Grp(LazyStar(Dot)),
          Boundary(<<WordOpt("QUALIFICATION", "S"), WordOpt("REQUIREMENT", "S"),
                     Lit("EDUCATION"), Lit("EXPERIENCE"), Eos>>)>>),
    Cat(<<Lit("JOB"), Plus(WS), Lit("DUTIES"),
          Star(NotSet({":"})), Opt(Lit(":")), Star(WS),
          Grp(LazyStar(Dot)),
          Boundary(<<WordOpt("QUALIFICATION", "S"), WordOpt("REQUIREMENT", "S"),
                     Lit("EDUCATION"), Lit("EXPERIENCE"), Eos>>)>>),
    Cat(<<Lit("SUPERVISORY"), Plus(WS), Lit("RESPONSIBILITIES"), Opt(Lit(":")), Star(WS),
          Grp(LazyStar(Dot)),
          Boundary(<<WordOpt("QUALIFICATION", "S"), WordOpt("CERTIFICATE", "S"),
                     Lit("EDUCATION"), Eos>>)>>) >>

\* len(item) > 20 and len(cleaned) > 20
FunctionMinLen == 20

\* functions[:15]
MaxFunctions == 15

\* r'[\n;]|(?<=\.)\s+(?=[A-Z])'
FunctionSplitRe ==
    Alt(<<Set({"\n", ";"}), Cat(<<Behind(Lit(".")), Plus(WS), Look(Set(UpperSet))>>)>>)

RECURSIVE SubstantialItems(_, _)
\* the items, stripped, that are longer than minLen
SubstantialItems(items, minLen) ==
    IF items = <<>> THEN <<>>
    ELSE LET item == strip(Head(items))
         IN  (IF item # <<>> /\ Len(item) > minLen THEN <<item>> ELSE <<>>)
             \o SubstantialItems(Tail(items), minLen)

RECURSIVE FunctionsFromPatterns(_, _, _)
\* the loop over function_patterns from pattern i on: the functions list
FunctionsFromPatterns(patterns, i, job_description) ==
    IF i > Len(patterns) THEN <<>>
    ELSE LET match == re_search(patterns[i], job_description, IgnoreCaseDotAll)
             section_text == clean_text(match.g1)
             functions == SubstantialItems(re_split(FunctionSplitRe, section_text, NoFlags),
                                           FunctionMinLen)
         IN  IF match.ok /\ strip(match.g1) # <<>> /\ functions # <<>>
             THEN functions
             ELSE FunctionsFromPatterns(patterns, i + 1, job_description)

\* r'(?i)(?:responsibilities|duties|functions)'
DutiesWordRe == Alt(Words(<<"responsibilities", "duties", "functions">>))

\* r'^[-•*]\s*'
DashBulletRe == Cat(<<Bos, Set({"-", "U+2022", "*"}), Star(WS)>>)

RECURSIVE FunctionsFromLines(_, _)
\* the fallback loop over the lines of the description
FunctionsFromLines(lines, in_duties_section) ==
    IF lines = <<>> THEN <<>>
    ELSE LET line_stripped == strip(Head(lines))
             cleaned == clean_text(line_stripped)
         IN  IF re_search(DutiesWordRe, line_stripped, IgnoreCase).ok
             THEN FunctionsFromLines(Tail(lines), TRUE)
             ELSE IF in_duties_section /\ re_match(CapsHeaderRe, line_stripped, NoFlags).ok
             THEN <<>>
             ELSE (IF /\ (re_match(DashBulletRe, line_stripped, NoFlags).ok \/ in_duties_section)
                      /\ cleaned # <<>> /\ Len(cleaned) > FunctionMinLen
                   THEN <<cleaned>> ELSE <<>>)
                  \o FunctionsFromLines(Tail(lines), in_duties_section)

extract_essential_functions_body(job_description0) ==
    LET job_description == fix_encoding_issues(job_description0)
        f1 == FunctionsFromPatterns(function_patterns, 1, job_description)
        functions == IF f1 # <<>> THEN f1
                     ELSE FunctionsFromLines(split(job_description, <<"\n">>), FALSE)
    IN  join(<<"\n">>, Take(functions, MaxFunctions))

\* a phrase whose words are separated by \s+
Phrase(ws) ==
    Cat([i \in 1..(2 * Len(ws) - 1) |-> IF i % 2 = 1 THEN Lit(ws[(i + 1) \div 2]) ELSE Plus(WS)])

\* [/\s]
SlashOrSpace == Set({"/"} \cup Whitespace)

\* [^.;]
NotStop == NotSet({".", ";"})

\* [.;]?
OptStop == Opt(Set({".", ";"}))

\* whether any of the words occurs in the text
AnyWordIn(ws, text) == \E i \in 1..Len(ws) : Contains(text, Chars(ws[i]))

\* education_patterns of extract_education
education_patterns == <<
    Cat(<<Lit("EDUCATION"), Plus(WS),
          Opt(Alt(<<WordOpt("REQUIREMENT", "S"),
                    Cat(<<Lit("AND"), SlashOrSpace, Lit("OR"), Plus(WS), Lit("EXPERIENCE")>>)>>)),
          Opt(Lit(":")), Star(WS),
          Grp(LazyStar(Dot)),
          Boundary(Words(<<"EXPERIENCE", "LICENSES", "CERTIFICATES", "KNOWLEDGE", "SKILLS",
                           "ESSENTIAL", "SUPERVISORY", "QUALIFICATIONS", "PHYSICAL">>)
                   \o <<Eos>>)>>),
    Cat(<<WordOpt("QUALIFICATION", "S"), Opt(Lit(":")), Star(WS),
          Opt(Cat(<<Lit("EDUCATION"), Opt(Lit(":")), Star(WS)>>)),
          Grp(LazyStar(Dot)),
          Boundary(<<Lit("EXPERIENCE"), Lit("LICENSES"), Eos>>)>>),
    Cat(<<Lit("MINIMUM"), Plus(WS), WordOpt("QUALIFICATION", "S"), Opt(Lit(":")), Star(WS),
          Grp(LazyStar(Dot)),
          Boundary(<<Lit("EXPERIENCE"), Lit("LICENSES"), Eos>>)>>) >>

\* r'(?i)(?:bachelor|master|phd|doctorate|associate|degree|diploma|ged|high school|education)'
EducationWordRe ==
    Alt(Words(<<"bachelor", "master", "phd", "doctorate", "associate", "degree", "diploma",
                "ged", "high school", "education">>))

\* r'(?i)\d+\s+(?:years?|months?)\s+(?:of\s+)?(?:experience|working)'
ExperienceSpanRe ==
    Cat(<<Plus(Digit), Plus(WS), Alt(<<WordOpt("year", "s"), WordOpt("month", "s")>>), Plus(WS),
          Opt(Cat(<<Lit("of"), Plus(WS)>>)), Alt(Words(<<"experience", "working">>))>>)

\* inline_patterns of extract_education
inline_patterns == <<
    Grp(Cat(<<Alt(Words(<<"bachelor", "master", "phd", "associate">>)),
              Opt(Alt(<<Lit("'s"), Lit("s")>>)), Plus(WS), Lit("degree"),
              Star(NotStop), OptStop>>)),
    Grp(Cat(<<Lit("high"), Plus(WS), Lit("school"), Plus(WS),
              Alt(Words(<<"diploma", "degree">>)), Plus(WS), Lit("or"), Plus(WS),
              Alt(Words(<<"ged", "equivalent">>)), Star(NotStop), OptStop>>)),
    Grp(Cat(<<Lit("minimum"), Plus(WS), Opt(Cat(<<Lit("of"), Plus(WS)>>)),
              Opt(Cat(<<Lit("a"), Plus(WS)>>)),
              Alt(Words(<<"bachelor", "master", "associate">>)), Star(NotStop), OptStop>>)) >>

\* len(clean_match) > 10
InlineMinLen == 10

RECURSIVE EducationLine(_)
\* the loop over the lines of a section: the items it appends (none or one)
EducationLine(lines) ==
    IF lines = <<>> THEN <<>>
    ELSE LET line == strip(Head(lines))
         IN  IF /\ re_search(EducationWordRe, line, IgnoreCase).ok
                /\ ~re_search(ExperienceSpanRe, line, IgnoreCase).ok
             THEN <<clean_text(line)>>
             ELSE EducationLine(Tail(lines))

RECURSIVE EducationFromPatterns(_, _, _)
\* the loop over education_patterns from pattern i on: education_items
EducationFromPatterns(patterns, i, job_description) ==
    IF i > Len(patterns) THEN <<>>
    ELSE LET match == re_search(patterns[i], job_description, IgnoreCaseDotAll)
             items == EducationLine(split(match.g1, <<"\n">>))
         IN  IF match.ok /\ items # <<>> THEN items
             ELSE EducationFromPatterns(patterns, i + 1, job_description)

RECURSIVE FirstLongClean(_, _)
\* the loop over the matches of an inline pattern: the items it appends (none or one)
FirstLongClean(matches, minLen) ==
    IF matches = <<>> THEN <<>>
    ELSE LET clean_match == clean_text(Head(matches))
         IN  IF clean_match # <<>> /\ Len(clean_match) > minLen THEN <<clean_match>>
             ELSE FirstLongClean(Tail(matches), minLen)

RECURSIVE EducationInline(_, _, _)
EducationInline(patterns, i, job_description) ==
    IF i > Len(patterns) THEN <<>>
    ELSE LET items == FirstLongClean(re_findall(patterns[i], job_description, IgnoreCase),
                                     InlineMinLen)
         IN  IF items # <<>> THEN items
             ELSE EducationInline(patterns, i + 1, job_description)

extract_education_body(job_description0) ==
    LET job_description == fix_encoding_issues(job_description0)
        e1 == EducationFromPatterns(education_patterns, 1, job_description)
        education_items == IF e1 # <<>> THEN e1
                           ELSE EducationInline(inline_patterns, 1, job_description)
    IN  IF education_items # <<>> THEN education_items[1] ELSE <<>>

\* years? | yrs?
Years == Alt(<<WordOpt("year", "s"), WordOpt("yr", "s")>>)

\* experience_patterns of extract_work_experience
experience_patterns == <<
    Cat(<<Opt(Cat(<<Lit("WORK"), Plus(WS)>>)), Lit("EXPERIENCE"), Star(WS),
          Opt(WordOpt("REQUIREMENT", "S")), Opt(Lit(":")), Star(WS),
          Grp(LazyStar(Dot)),
          Boundary(Words(<<"EDUCATION", "LICENSES", "CERTIFICATES", "KNOWLEDGE", "SKILLS",
                           "ESSENTIAL">>) \o <<Eos>>)>>),
    Grp(Cat(<<Plus(Digit), Star(WS),
              Opt(Alt(<<Lit("+"), Lit("-"), Cat(<<Lit("or"), Plus(WS), Lit("more")>>)>>)),
              Star(WS), Years, Plus(WS), Opt(Cat(<<Lit("of"), Plus(WS)>>)),
              LazyStar(NotStop), Lit("experience"), Star(NotStop), OptStop>>)),
    Grp(Cat(<<Alt(<<Lit("minimum"), Cat(<<Lit("at"), Plus(WS), Lit("least")>>),
                    Cat(<<Lit("must"), Plus(WS), Lit("have")>>), WordOpt("require", "s")>>),
              Plus(WS), Plus(Digit), Plus(WS), Years,
              LazyStar(NotStop), Lit("experience"), Star(NotStop), OptStop>>)),
    Grp(Cat(<<Lit("previous"), Plus(WS), Lit("experience"), Star(NotStop), OptStop>>)) >>

EducationVocabulary == <<"bachelor", "master", "degree", "diploma">>

RECURSIVE FirstExperience(_)
\* the loop over the matches of an experience pattern: the items it appends
FirstExperience(matches) ==
    IF matches = <<>> THEN <<>>
    ELSE LET clean_match == clean_text(Head(matches))
         IN  IF /\ Head(matches) # <<>>
                /\ Contains(lower(clean_match), Chars("experience"))
                /\ \/ re_search(Plus(Digit), clean_match, NoFlags).ok
                   \/ Contains(lower(clean_match), Chars("previous"))
                /\ ~AnyWordIn(EducationVocabulary, lower(clean_match))
             THEN <<clean_match>>
             ELSE FirstExperience(Tail(matches))

RECURSIVE ExperienceFromPatterns(_, _, _)
ExperienceFromPatterns(patterns, i, job_description) ==
    IF i > Len(patterns) THEN <<>>
    ELSE LET items == FirstExperience(re_findall(patterns[i], job_description, IgnoreCaseDotAll))
         IN  IF items # <<>> THEN items
             ELSE ExperienceFromPatterns(patterns, i + 1, job_description)

\* combined_pattern of extract_work_experience
combined_pattern ==
    Cat(<<Lit("EDUCATION"), Plus(WS), Lit("AND"), SlashOrSpace, Lit("OR"), Plus(WS),
          Lit("EXPERIENCE"), Opt(Lit(":")), Star(WS),
          Grp(LazyStar(Dot)),
          Boundary(<<Lit("CERTIFICATES"), Lit("ESSENTIAL"), Lit("SUPERVISORY"), Eos>>)>>)

\* r'(?i)\d+\s+(?:years?|yrs?)\s+(?:of\s+)?.*?experience'
YearsOfExperienceRe ==
    Cat(<<Plus(Digit), Plus(WS), Years, Plus(WS), Opt(Cat(<<Lit("of"), Plus(WS)>>)),
          LazyStar(Dot), Lit("experience")>>)

RECURSIVE FirstExperienceSentence(_)
FirstExperienceSentence(sentences) ==
    IF sentences = <<>> THEN <<>>
    ELSE IF re_search(YearsOfExperienceRe, Head(sentences), IgnoreCase).ok
         THEN <<clean_text(Head(sentences))>>
         ELSE FirstExperienceSentence(Tail(sentences))

ExperienceFromCombined(job_description) ==
    LET match == re_search(combined_pattern, job_description, IgnoreCaseDotAll)
    IN  IF match.ok
        THEN FirstExperienceSentence(re_split(Set({".", ";"}), match.g1, NoFlags))
        ELSE <<>>

extract_work_experience_body(job_description0) ==
    LET job_description == fix_encoding_issues(job_description0)
        x1 == ExperienceFromPatterns(experience_patterns, 1, job_description)
        experience_items == IF x1 # <<>> THEN x1 ELSE ExperienceFromCombined(job_description)
    IN  IF experience_items # <<>> THEN experience_items[1] ELSE <<>>

\* cert_patterns of extract_licenses_certifications
cert_patterns == <<
    Cat(<<Alt(<<WordOpt("CERTIFICATE", "S"), WordOpt("LICENSE", "S"),
                WordOpt("CERTIFICATION", "S"), WordOpt("REGISTRATION", "S")>>),
          Star(NotSet({":"})), Opt(Lit(":")), Star(WS),
          Grp(LazyStar(Dot)),
          Boundary(Words(<<"COMMUNICATION", "MATHEMATICAL", "REASONING", "TECHNOLOGY", "OTHER",
                           "PHYSICAL", "LANGUAGE", "KNOWLEDGE", "SKILLS">>) \o <<Eos>>)>>),
    Cat(<<WordOpt("LICENSE", "S"), Plus(WS), Lit("AND"), Plus(WS), WordOpt("CERTIFICATION", "S"),
          Star(NotSet({":"})), Opt(Lit(":")), Star(WS),
          Grp(LazyStar(Dot)),
          Boundary(<<CapsHeader, Eos>>)>>),
    Grp(Cat(<<Alt(<<Lit("valid"), Lit("current"), Lit("active"),
                    Cat(<<Lit("must"), Plus(WS), Alt(Words(<<"have", "hold", "possess">>))>>)>>),
              Plus(WS), Star(NotStop),
              Alt(Words(<<"license", "certification", "certificate">>)),
              Star(NotStop), OptStop>>)) >>

CertWords == <<"license", "certif", "registration">>

RECURSIVE FirstCert(_)
FirstCert(matches) ==
    IF matches = <<>> THEN <<>>
    ELSE LET clean_match == clean_text(Head(matches))
         IN  IF Head(matches) # <<>> /\ AnyWordIn(CertWords, lower(clean_match))
             THEN <<clean_match>>
             ELSE FirstCert(Tail(matches))

RECURSIVE CertsFromPatterns(_, _, _)
CertsFromPatterns(patterns, i, job_description) ==
    IF i > Len(patterns) THEN <<>>
    ELSE LET items == FirstCert(re_findall(patterns[i], job_description, IgnoreCaseDotAll))
         IN  IF items # <<>> THEN items
             ELSE CertsFromPatterns(patterns, i + 1, job_description)

\* a variant that returns the text None when nothing is found
extract_licenses_certifications_or_none(job_description0) ==
    LET job_description == fix_encoding_issues(job_description0)
        cert_items == CertsFromPatterns(cert_patterns, 1, job_description)
    IN  IF cert_items # <<>> THEN cert_items[1] ELSE Chars("None")

extract_licenses_certifications_body(job_description0) ==
    LET job_description == fix_encoding_issues(job_description0)
        cert_items == CertsFromPatterns(cert_patterns, 1, job_description)
    IN  IF cert_items # <<>> THEN cert_items[1] ELSE <<>>

\* ksa_patterns of extract_knowledge_skills_abilities
ksa_patterns == <<
    Cat(<<Alt(Words(<<"COMMUNICATION", "LANGUAGE", "MATHEMATICAL">>)), Plus(WS), Lit("SKILLS"),
          Opt(Lit(":")), Star(WS),
          Grp(LazyStar(Dot)),
          Boundary(<<Lit("PHYSICAL"), Cat(<<Lit("WORK"), Plus(WS), Lit("ENVIRONMENT")>>),
                     Lit("REASONING"), Eos>>)>>),
    Cat(<<Lit("KNOWLEDGE"), Opt(Lit(",")), Plus(WS), Lit("SKILLS"), Opt(Lit(",")), Plus(WS),
          Opt(Cat(<<Lit("AND"), Plus(WS)>>)), Lit("ABILITIES"),
          Star(NotSet({":"})), Opt(Lit(":")), Star(WS),
          Grp(LazyStar(Dot)),
          Boundary(<<CapsHeader, Eos>>)>>),
    Cat(<<Opt(Alt(<<Cat(<<Lit("REQUIRED"), Plus(WS)>>), Cat(<<Lit("PREFERRED"), Plus(WS)>>)>>)),
          Lit("SKILLS"),
          Star(NotSet({":"})), Opt(Lit(":")), Star(WS),
          Grp(LazyStar(Dot)),
          Boundary(<<Lit("EDUCATION"), Lit("EXPERIENCE"), CapsHeader, Eos>>)>>),
    Cat(<<Phrase(<<"OTHER", "SKILLS", "AND", "ABILITIES">>), Opt(Lit(":")), Star(WS),
          Grp(LazyStar(Dot)),
          Boundary(<<Lit("PHYSICAL"), Lit("WORK"), Eos>>)>>),
    Cat(<<Phrase(<<"REASONING", "ABILITY">>), Opt(Lit(":")), Star(WS),
          Grp(LazyStar(Dot)),
          Boundary(<<Lit("CERTIFICATES"), Lit("OTHER"), Lit("PHYSICAL"), Eos>>)>>),
    Cat(<<Alt(Words(<<"COMPUTER", "TECHNOLOGY">>)), Plus(WS), Lit("SKILLS"),
          Opt(Lit(":")), Star(WS),
          Grp(LazyStar(Dot)),
          Boundary(<<Lit("OTHER"), Lit("PHYSICAL"), Eos>>)>>) >>

\* len(item) > 15
KsaMinLen == 15

\* len(clean_match) > 10 of the skill patterns
SkillMinLen == 10

\* len(ksa_items) >= 5
KsaEnough == 5

\* ksa_items[:10]
MaxKsaItems == 10

RECURSIVE KsaFromPatterns(_, _, _)
KsaFromPatterns(patterns, i, job_description) ==
    IF i > Len(patterns) THEN <<>>
    ELSE LET match == re_search(patterns[i], job_description, IgnoreCaseDotAll)
             section_text == clean_text(match.g1)
             items == SubstantialItems(re_split(Set({"\n", ";"}), section_text, NoFlags),
                                       KsaMinLen)
         IN  IF match.ok /\ strip(match.g1) # <<>> /\ items # <<>> THEN items
             ELSE KsaFromPatterns(patterns, i + 1, job_description)

\* skill_patterns of extract_knowledge_skills_abilities
skill_patterns == <<
    Grp(Cat(<<Alt(<<Lit("computer"), Lit("communication"), Lit("interpersonal"),
                    Phrase(<<"customer", "service">>), Lit("analytical"),
                    Phrase(<<"problem", "solving">>)>>),
              Plus(WS), Lit("skills"), Star(NotStop), OptStop>>)),
    Grp(Cat(<<Phrase(<<"ability", "to">>), Plus(WS), Plus(NotStop), OptStop>>)),
    Grp(Cat(<<Alt(Words(<<"strong", "excellent", "good">>)), Plus(WS), Star(NotStop),
              Lit("skills"), Star(NotStop), OptStop>>)),
    Grp(Cat(<<Alt(Words(<<"knowledge", "experience">>)), Plus(WS),
              Alt(Words(<<"of", "with", "in">>)), Plus(WS), Plus(NotStop), OptStop>>)) >>

RECURSIVE AllLongClean(_, _)
\* the loop over the matches of a skill pattern: the items it appends
AllLongClean(matches, minLen) ==
    IF matches = <<>> THEN <<>>
    ELSE LET clean_match == clean_text(Head(matches))
         IN  (IF clean_match # <<>> /\ Len(clean_match) > minLen THEN <<clean_match>> ELSE <<>>)
             \o AllLongClean(Tail(matches), minLen)

RECURSIVE KsaFromSkills(_, _, _, _)
\* the loop over skill_patterns from pattern i on, ksa_items so far
KsaFromSkills(patterns, i, job_description, ksa_items) ==
    IF i > Len(patterns) \/ (i > 1 /\ Len(ksa_items) >= KsaEnough) THEN ksa_items
    ELSE KsaFromSkills(patterns, i + 1, job_description,
                       ksa_items \o AllLongClean(re_findall(patterns[i], job_description,
                                                            IgnoreCase), SkillMinLen))

extract_knowledge_skills_abilities_body(job_description0) ==
    LET job_description == fix_encoding_issues(job_description0)
        k1 == KsaFromPatterns(ksa_patterns, 1, job_description)
        ksa_items == IF k1 # <<>> THEN k1
                     ELSE KsaFromSkills(skill_patterns, 1, job_description, <<>>)
    IN  join(<<"\n">>, Take(ksa_items, MaxKsaItems))

\* ---------------------------------------------------------------------------
\* Summary inference and record assembly
\* ---------------------------------------------------------------------------

\* functions[:3]
KeyFunctionWindow == 3

\* len(func) > 20
KeyFunctionMinLen == 20

\* the body of the loop over functions[:3] for one func: the key functions it appends
KeyFunction(func0) ==
    LET func == lower(strip(func0))
    IN  IF strip(func0) # <<>> /\ Len(strip(func0)) > KeyFunctionMinLen
        THEN <<IF endswith(func, <<".">>) THEN SubSeq(func, 1, Len(func) - 1) ELSE func>>
        ELSE <<>>

RECURSIVE KeyFunctions(_)
KeyFunctions(functions) ==
    IF functions = <<>> THEN <<>>
    ELSE KeyFunction(Head(functions)) \o KeyFunctions(Tail(functions))

\* a variant whose sentence has no marker in front and that does not test the title
infer_position_summary_unmarked(essential_functions, job_title) ==
    IF essential_functions = <<>> THEN <<>>
    ELSE LET functions == split(essential_functions, <<"\n">>)
             key_functions == KeyFunctions(Take(functions, KeyFunctionWindow))
         IN  IF key_functions = <<>> THEN <<>>
             ELSE Chars("The ") \o job_title \o Chars(" is responsible for ")
                  \o key_functions[1] \o <<".">>

infer_position_summary_body(essential_functions, job_title) ==
    IF essential_functions = <<>> \/ job_title = <<>> THEN <<>>
    ELSE LET functions == split(essential_functions, <<"\n">>)
             key_functions == KeyFunctions(Take(functions, KeyFunctionWindow))
         IN  IF key_functions = <<>> THEN <<>>
             ELSE IF Len(key_functions) >= 2
                  THEN Chars("*The ") \o job_title \o Chars(" is responsible for ")
                       \o key_functions[1] \o Chars(" and ") \o key_functions[2] \o <<".">>
                  ELSE Chars("*The ") \o job_title \o Chars(" is responsible for ")
                       \o key_functions[1] \o <<".">>

\* Python values of the cells of a frame and of the fields of a record
StrValue(cs) == [t |-> "str", v |-> cs]

IntValue(n) == [t |-> "int", v |-> n]

NoneValue == [t |-> "none", v |-> <<>>]

DigitChars == <<"0", "1", "2", "3", "4", "5", "6", "7", "8", "9">>

RECURSIVE IntStr(_)
\* the decimal digits of a natural number
IntStr(n) ==
    IF n < 10 THEN <<DigitChars[n + 1]>>
    ELSE IntStr(n \div 10) \o <<DigitChars[(n % 10) + 1]>>

\* whether str(x) raises: not for any value that read_csv puts in a frame
StrRaises(x) == x.t \notin {"str", "int", "none"}

\* str(x), as text
str(x) ==
    CASE x.t = "str" -> x.v
      [] x.t = "int" -> IntStr(x.v)
      [] x.t = "none" -> Chars("None")

TitleColumn == "job-details-job-title"

DescriptionColumn == "jobDescription-value"

\* row.get(key, default): a row is a function from the columns of its frame to values
row_get(row, key, default) == IF key \in DOMAIN row THEN row[key] ELSE default

\* a variant of the condition that does not look at the extracted summary
ShouldInferAlways(position_summary, essential_functions) == essential_functions # <<>>

\* the condition of the inference step of process_single_job:
\* if not position_summary and essential_functions
ShouldInfer(position_summary, essential_functions) ==
    position_summary = <<>> /\ essential_functions # <<>>

\* a variant in which the education is followed by the title
process_single_job_locals_titled(row) ==
    LET job_description == str(row_get(row, DescriptionColumn, StrValue(<<>>)))
        job_title == str(row_get(row, TitleColumn, StrValue(<<>>)))
        position_summary == extract_position_summary(job_description)
        essential_functions == extract_essential_functions(job_description)
        infers == ShouldInfer(position_summary, essential_functions)
    IN  [job_title |-> job_title,
         extracted_summary |-> position_summary,
         position_summary |-> IF infers
                              THEN infer_position_summary(essential_functions, job_title)
                              ELSE position_summary,
         education |-> extract_education(job_description) \o job_title,
         work_experience |-> extract_work_experience(job_description),
         essential_functions |-> essential_functions,
         licenses_certifications |-> extract_licenses_certifications(job_description),
         knowledge_skills_abilities |-> extract_knowledge_skills_abilities(job_description),
         infer_calls |-> IF infers THEN <<[essential_functions |-> essential_functions,
                                           job_title |-> job_title]>>
                         ELSE <<>>]

\* the locals of process_single_job when it builds its result, with the calls of
\* infer_position_summary it made
process_single_job_locals_body(row) ==
    LET job_description == str(row_get(row, DescriptionColumn, StrValue(<<>>)))
        job_title == str(row_get(row, TitleColumn, StrValue(<<>>)))
        position_summary == extract_position_summary(job_description)
        essential_functions == extract_essential_functions(job_description)
        infers == ShouldInfer(position_summary, essential_functions)
    IN  [job_title |-> job_title,
         extracted_summary |-> position_summary,
         position_summary |-> IF infers
                              THEN infer_position_summary(essential_functions, job_title)
                              ELSE position_summary,
         education |-> extract_education(job_description),
         work_experience |-> extract_work_experience(job_description),
         essential_functions |-> essential_functions,
         licenses_certifications |-> extract_licenses_certifications(job_description),
         knowledge_skills_abilities |-> extract_knowledge_skills_abilities(job_description),
         infer_calls |-> IF infers THEN <<[essential_functions |-> essential_functions,
                                           job_title |-> job_title]>>
                         ELSE <<>>]

\* the body of the function named f, applied to the arguments a
call(f, a) ==
    CASE f = "re_search" -> re_search_body(a[1], a[2], a[3])
      [] f = "re_match" -> re_match_body(a[1], a[2], a[3])
      [] f = "re_findall" -> re_findall_body(a[1], a[2], a[3])
      [] f = "re_split" -> re_split_body(a[1], a[2], a[3])
      [] f = "re_sub" -> re_sub_body(a[1], a[2], a[3], a[4])
      [] f = "split" -> split_body(a[1], a[2])
      [] f = "join" -> join_body(a[1], a[2])
      [] f = "replace" -> replace_body(a[1], a[2], a[3])
      [] f = "fix_encoding_issues" -> fix_encoding_issues_body(a[1])
      [] f = "remove_leading_bullets_and_numbers" -> remove_leading_bullets_and_numbers_body(a[1])
      [] f = "clean_text" -> clean_text_body(a[1])
      [] f = "extract_position_summary" -> extract_position_summary_body(a[1])
      [] f = "extract_essential_functions" -> extract_essential_functions_body(a[1])
      [] f = "extract_education" -> extract_education_body(a[1])
      [] f = "extract_work_experience" -> extract_work_experience_body(a[1])
      [] f = "extract_licenses_certifications" -> extract_licenses_certifications_body(a[1])
      [] f = "extract_knowledge_skills_abilities" -> extract_knowledge_skills_abilities_body(a[1])
      [] f = "infer_position_summary" -> infer_position_summary_body(a[1], a[2])
      [] f = "process_single_job_locals" -> process_single_job_locals_body(a[1])

\* a variant that stores no value where nothing was extracted
NoneIfEmpty(cs) == IF cs = <<>> THEN NoneValue ELSE StrValue(cs)

result_nullable(l) ==
    << <<"Job Description Name", StrValue(l.job_title)>>,
       <<"Position Summary", NoneIfEmpty(l.position_summary)>>,
       <<"Education", NoneIfEmpty(l.education)>>,
       <<"Work Experience", NoneIfEmpty(l.work_experience)>>,
       <<"Essential Functions", NoneIfEmpty(l.essential_functions)>>,
       <<"Licenses and Certifications", NoneIfEmpty(l.licenses_certifications)>>,
       <<"Knowledge, Skills and Abilities", NoneIfEmpty(l.knowledge_skills_abilities)>> >>

\* result of process_single_job, built from its locals l: a dict, as its items in
\* insertion order
result(l) ==
    << <<"Job Description Name", StrValue(l.job_title)>>,
       <<"Position Summary", StrValue(l.position_summary)>>,
       <<"Education", StrValue(l.education)>>,
       <<"Work Experience", StrValue(l.work_experience)>>,
       <<"Essential Functions", StrValue(l.essential_functions)>>,
       <<"Licenses and Certifications", StrValue(l.licenses_certifications)>>,
       <<"Knowledge, Skills and Abilities", StrValue(l.knowledge_skills_abilities)>> >>

\* a variant of the fallback record that does not keep the title
basic_result_untitled(row) ==
    << <<"Job Description Name", StrValue(<<>>)>>,
       <<"Position Summary", StrValue(<<>>)>>,
       <<"Education", StrValue(<<>>)>>,
       <<"Work Experience", StrValue(<<>>)>>,
       <<"Essential Functions", StrValue(<<>>)>>,
       <<"Licenses and Certifications", StrValue(<<>>)>>,
       <<"Knowledge, Skills and Abilities", StrValue(<<>>)>> >>

\* basic_result of transform_data, built when a row's processing raised
basic_result(row) ==
    << <<"Job Description Name", StrValue(str(row_get(row, TitleColumn, StrValue(<<>>))))>>,
       <<"Position Summary", StrValue(<<>>)>>,
       <<"Education", StrValue(<<>>)>>,
       <<"Work Experience", StrValue(<<>>)>>,
       <<"Essential Functions", StrValue(<<>>)>>,
       <<"Licenses and Certifications", StrValue(<<>>)>>,
       <<"Knowledge, Skills and Abilities", StrValue(<<>>)>> >>

required_columns == <<TitleColumn, DescriptionColumn>>

column_order ==
    <<"Job Description Name", "Position Summary", "Education", "Work Experience",
      "Essential Functions", "Licenses and Certifications", "Knowledge, Skills and Abilities">>

\* record[key] of a dict given as its items; NaN (no value) where the key is absent
Field(record, key) ==
    IF \E j \in 1..Len(record) : record[j][1] = key
    THEN record[CHOOSE j \in 1..Len(record) : record[j][1] = key][2]
    ELSE NoneValue

\* pd.DataFrame(results)[column_order]: the rows of the output frame
FrameOf(rs) ==
    [k \in 1..Len(rs) |-> [j \in 1..Len(column_order) |-> Field(rs[k], column_order[j])]]

\* ---------------------------------------------------------------------------
\* transform_data as a state machine
\* ---------------------------------------------------------------------------

VARIABLES
    input_file,       \* the CSV file: whether it can be read, its columns, its rows
    pc,               \* where transform_data is: "start", "rows", "saved", "exited";
                      \* "session" when the methods are called one by one
    df_input,         \* the rows of the frame read from the file
    index,            \* the number of rows the loop has consumed
    results,          \* the records appended so far
    skipped_rows,     \* the 1-based numbers of the rows left out
    processed_count,
    printed,          \* the lines printed, as [msg, row]
    traced,           \* for each call of process_single_job that returned: its locals
    output_file,      \* the rows written by to_csv
    exit_code,        \* 1 after sys.exit(1)
    session_text,     \* the text the next call is given
    session_title,    \* the title that infer_position_summary is given
    session_calls,    \* the calls made one by one, as [op, arg, out]
    self_char_replacements, \* the table of the extractor instance that the calls share
    job_calls,        \* the calls of process_single_job on the instance: [row, locals]
    worker_row,       \* for each worker, the record that it processes
    worker_pc,        \* for each worker, where its call of process_single_job is
    worker_locals     \* for each worker, the locals of its call

vars == <<input_file, pc, df_input, index, results, skipped_rows, processed_count, printed,
          traced, output_file, exit_code, session_text, session_title, session_calls,
          self_char_replacements, job_calls, worker_row, worker_pc, worker_locals>>

batchVars == <<input_file, pc, df_input, index, results, skipped_rows, processed_count,
               printed, traced, output_file, exit_code>>

textVars == <<session_text, session_title, session_calls>>

jobVars == <<self_char_replacements, job_calls, worker_row, worker_pc, worker_locals>>

\* the largest number of rows of a file
MaxRows == 3

SummaryAndFunctions ==
    Chars("SUMMARY: Leads the whole front office team.\nDUTIES:\n- Prepare weekly board reports")

FunctionsOnly ==
    Chars("DUTIES:\n- Prepare weekly board reports\n- Supervise school volunteers")

\* the rows that files are made of: text titles first, then numeric titles
SampleRows == <<
    [title |-> StrValue(Chars("Clerk")), description |-> StrValue(SummaryAndFunctions)],
    [title |-> StrValue(Chars("Aide")), description |-> StrValue(FunctionsOnly)],
    [title |-> StrValue(<<>>), description |-> StrValue(Chars("  "))],
    [title |-> StrValue(Chars("Cook")), description |-> StrValue(<<>>)],
    [title |-> IntValue(7), description |-> StrValue(FunctionsOnly)],
    [title |-> IntValue(12), description |-> StrValue(<<>>)] >>

\* read_csv gives a column one type: a file has text titles or numeric titles
TextTitled == {i \in 1..Len(SampleRows) : SampleRows[i].title.t = "str"}

NumberTitled == {i \in 1..Len(SampleRows) : SampleRows[i].title.t = "int"}

Batches(S) == UNION {[1..n -> S] : n \in 0..MaxRows}

\* the row of a frame with the given columns that holds the cells of a sample row
RowOf(sample, columns) ==
    [c \in columns |-> IF c = TitleColumn THEN sample.title ELSE sample.description]

ColumnSets == SUBSET {TitleColumn, DescriptionColumn}

InputFiles ==
    {[readable |-> FALSE, columns |-> {}, rows |-> <<>>]}
    \cup {[readable |-> TRUE, columns |-> cs,
           rows |-> [k \in 1..Len(b) |-> RowOf(SampleRows[b[k]], cs)]] :
          cs \in ColumnSets, b \in Batches(TextTitled) \cup Batches(NumberTitled)}

FrameRows == {RowOf(SampleRows[i], cs) : i \in 1..Len(SampleRows), cs \in ColumnSets}

\* the locals of process_single_job on the rows of the files, tabulated
LocalsOf == [row \in FrameRows |-> process_single_job_locals(row)] @@ <<>>

Locals(row) ==
    IF row \in DOMAIN LocalsOf THEN LocalsOf[row] ELSE process_single_job_locals(row)

process_single_job(row) == result(Locals(row))

Line(msg, row) == [msg |-> msg, row |-> row]

TextIdle == session_text = <<>> /\ session_title = <<>> /\ session_calls = <<>>

\* the instance as __init__ leaves it, with no call of process_single_job under way
JobsIdle ==
    /\ self_char_replacements = char_replacements
    /\ job_calls = <<>>
    /\ worker_row = <<>>
    /\ worker_pc = <<>>
    /\ worker_locals = <<>>

Init ==
    /\ input_file \in InputFiles
    /\ pc = "start"
    /\ df_input = <<>>
    /\ index = 0
    /\ results = <<>>
    /\ skipped_rows = <<>>
    /\ processed_count = 0
    /\ printed = <<>>
    /\ traced = <<>>
    /\ output_file = <<>>
    /\ exit_code = 0
    /\ TextIdle
    /\ JobsIdle

\* read_csv_with_diagnostics raises: the handler of transform_data exits
ReadFails ==
    /\ pc = "start"
    /\ ~input_file.readable
    /\ printed' = Append(printed, Line("Error processing file", 0))
    /\ exit_code' = 1
    /\ pc' = "exited"
    /\ UNCHANGED <<input_file, df_input, index, results, skipped_rows, processed_count,
                   traced, output_file>>
    /\ UNCHANGED textVars
    /\ UNCHANGED jobVars

missing_columns(columns) ==
    SelectSeq(required_columns, LAMBDA col : col \notin columns)

\* the file is read, the required columns are checked, the loop is set up
ReadInput ==
    /\ pc = "start"
    /\ input_file.readable
    /\ df_input' = input_file.rows
    /\ printed' = IF missing_columns(input_file.columns) # <<>>
                  THEN Append(printed, Line("Warning: Missing required columns", 0))
                  ELSE printed
    /\ results' = <<>>
    /\ skipped_rows' = <<>>
    /\ processed_count' = 0
    /\ index' = 0
    /\ pc' = "rows"
    /\ UNCHANGED <<input_file, traced, output_file, exit_code>>
    /\ UNCHANGED textVars
    /\ UNCHANGED jobVars

\* the cells the loop body reads
TitleCell(row) == row_get(row, TitleColumn, StrValue(<<>>))

DescriptionCell(row) == row_get(row, DescriptionColumn, StrValue(<<>>))

\* a variant of the test with `or` for `and`
EitherEmpty(row) ==
    \/ strip(str(TitleCell(row))) = <<>>
    \/ strip(str(DescriptionCell(row))) = <<>>

\* the test of the loop body: both the title and the description are empty
BothEmpty(row) ==
    /\ strip(str(TitleCell(row))) = <<>>
    /\ strip(str(DescriptionCell(row))) = <<>>

\* one iteration of the loop: the row is left out
SkipRow ==
    /\ pc = "rows"
    /\ index < Len(df_input)
    /\ LET row == df_input[index + 1]
       IN  /\ ~StrRaises(TitleCell(row))
           /\ ~StrRaises(DescriptionCell(row))
           /\ BothEmpty(row)
           /\ printed' = Append(printed, Line("Skipping row", index + 1))
           /\ skipped_rows' = Append(skipped_rows, index + 1)
    /\ index' = index + 1
    /\ UNCHANGED <<input_file, pc, df_input, results, processed_count, traced, output_file,
                   exit_code>>
    /\ UNCHANGED textVars
    /\ UNCHANGED jobVars

\* one iteration of the loop: process_single_job returns a record
ProcessRow ==
    /\ pc = "rows"
    /\ index < Len(df_input)
    /\ LET row == df_input[index + 1]
       IN  /\ ~StrRaises(TitleCell(row))
           /\ ~StrRaises(DescriptionCell(row))
           /\ ~BothEmpty(row)
           /\ printed' = Append(printed, Line("Processing row", index + 1))
           /\ results' = Append(results, process_single_job(row))
           /\ traced' = Append(traced, [row |-> index + 1, locals |-> Locals(row)])
    /\ processed_count' = processed_count + 1
    /\ index' = index + 1
    /\ self_char_replacements' = char_replacements_after_call(self_char_replacements)
    /\ UNCHANGED <<input_file, pc, df_input, skipped_rows, output_file, exit_code>>
    /\ UNCHANGED textVars
    /\ UNCHANGED <<job_calls, worker_row, worker_pc, worker_locals>>

\* one iteration of the loop: the body raises, at the cells or in process_single_job
RecoverRow ==
    /\ pc = "rows"
    /\ index < Len(df_input)
    /\ LET row == df_input[index + 1]
           early == StrRaises(TitleCell(row)) \/ StrRaises(DescriptionCell(row))
           lines == IF early THEN <<Line("Error processing row", index + 1)>>
                    ELSE <<Line("Processing row", index + 1),
                           Line("Error processing row", index + 1)>>
       IN  /\ early \/ ~BothEmpty(row)
           /\ IF StrRaises(TitleCell(row))
              THEN /\ printed' = printed \o lines
                                 \o <<Line("Could not create basic result", index + 1)>>
                   /\ skipped_rows' = Append(skipped_rows, index + 1)
                   /\ UNCHANGED <<results, processed_count>>
              ELSE /\ printed' = printed \o lines
                   /\ results' = Append(results, basic_result(row))
                   /\ processed_count' = processed_count + 1
                   /\ UNCHANGED skipped_rows
    /\ index' = index + 1
    /\ UNCHANGED <<input_file, pc, df_input, traced, output_file, exit_code>>
    /\ UNCHANGED textVars
    /\ UNCHANGED jobVars

\* after the loop: the counts are printed, the frame is built, ordered and saved;
\* selecting column_order from the frame of no records raises, and the handler exits
FinishBatch ==
    /\ pc = "rows"
    /\ index = Len(df_input)
    /\ LET counts == IF Len(results) # Len(df_input)
                     THEN <<Line("Processing complete", 0),
                            Line("WARNING: Row count mismatch!", 0)>>
                     ELSE <<Line("Processing complete", 0)>>
       IN  IF results = <<>>
           THEN /\ printed' = printed \o counts \o <<Line("Error processing file", 0)>>
                /\ exit_code' = 1
                /\ pc' = "exited"
                /\ UNCHANGED output_file
           ELSE /\ printed' = printed \o counts \o <<Line("File saved successfully", 0)>>
                /\ output_file' = FrameOf(results)
                /\ pc' = "saved"
                /\ UNCHANGED exit_code
    /\ UNCHANGED <<input_file, df_input, index, results, skipped_rows, processed_count, traced>>
    /\ UNCHANGED textVars
    /\ UNCHANGED jobVars

Next ==
    \/ ReadFails
    \/ ReadInput
    \/ SkipRow
    \/ ProcessRow
    \/ RecoverRow
    \/ FinishBatch

Spec == Init /\ [][Next]_vars

\* ---------------------------------------------------------------------------
\* The text methods called one by one, each on the result of the one before
\* ---------------------------------------------------------------------------

\* the largest number of parts of a text
MaxParts == 3

\* the largest number of calls in a row
MaxCalls == 2

\* line markers, a word and an entity, to stack into lines
MarkerParts == <<Chars("- "), Chars("a. "), Chars("1. "), Chars("x"), Chars("&amp;"),
                 Chars("amp;")>>

RECURSIVE Stacked(_)
\* the texts made of n parts
Stacked(n) ==
    IF n = 0 THEN {<<>>}
    ELSE {MarkerParts[i] \o t : i \in 1..Len(MarkerParts), t \in Stacked(n - 1)}

\* the corrupted sequences that the table names
EncodingTexts == {char_replacements[i][1] : i \in 1..Len(char_replacements)}

FunctionTexts ==
    {Chars("Prepare weekly board reports\nSupervise school volunteers"),
     Chars("Prepare weekly board reports."),
     Chars("Prepare weekly board reports..."),
     Chars("Short duty"),
     Chars("Short duty\nFiling\nPhones\nPrepare weekly board reports")}

\* texts of several lines, with markers and white space in and around the lines, and
\* texts with punctuation at their ends
LineTexts ==
    {Chars("- x\n- y"), Chars(" 1. a\n\n  2. b  "), Chars("x\t\ty \n"), Chars("a.) x"),
     Chars("(a) x:")}

SessionTexts ==
    UNION {Stacked(n) : n \in 0..MaxParts} \cup EncodingTexts \cup FunctionTexts
    \cup LineTexts

SessionTitles == {Chars("Clerk"), <<>>}

InitText ==
    /\ input_file = [readable |-> FALSE, columns |-> {}, rows |-> <<>>]
    /\ pc = "session"
    /\ df_input = <<>>
    /\ index = 0
    /\ results = <<>>
    /\ skipped_rows = <<>>
    /\ processed_count = 0
    /\ printed = <<>>
    /\ traced = <<>>
    /\ output_file = <<>>
    /\ exit_code = 0
    /\ session_text \in SessionTexts
    /\ session_title \in SessionTitles
    /\ session_calls = <<>>
    /\ JobsIdle

\* clean_text is called on the current text, which its result replaces
CallCleanText ==
    /\ pc = "session"
    /\ Len(session_calls) < MaxCalls
    /\ session_text' = clean_text(session_text)
    /\ session_calls' = Append(session_calls,
                               [op |-> "clean_text", arg |-> session_text, out |-> session_text'])
    /\ UNCHANGED session_title
    /\ UNCHANGED batchVars
    /\ UNCHANGED jobVars

\* fix_encoding_issues is called on the current text, which its result replaces
CallFixEncodingIssues ==
    /\ pc = "session"
    /\ Len(session_calls) < MaxCalls
    /\ session_text' = fix_encoding_issues(session_text)
    /\ session_calls' = Append(session_calls,
                               [op |-> "fix_encoding_issues", arg |-> session_text, out |-> session_text'])
    /\ UNCHANGED session_title
    /\ UNCHANGED batchVars
    /\ UNCHANGED jobVars

\* infer_position_summary is called on the current text as the essential functions
CallInferPositionSummary ==
    /\ pc = "session"
    /\ Len(session_calls) < MaxCalls
    /\ session_text' = infer_position_summary(session_text, session_title)
    /\ session_calls' = Append(session_calls,
                               [op |-> "infer_position_summary", arg |-> session_text, out |-> session_text'])
    /\ UNCHANGED session_title
    /\ UNCHANGED batchVars
    /\ UNCHANGED jobVars

\* remove_leading_bullets_and_numbers is called on the current text, which its result
\* replaces
CallRemoveLeadingBulletsAndNumbers ==
    /\ pc = "session"
    /\ Len(session_calls) < MaxCalls
    /\ session_text' = remove_leading_bullets_and_numbers(session_text)
    /\ session_calls' = Append(session_calls,
                               [op |-> "remove_leading_bullets_and_numbers",
                                arg |-> session_text, out |-> session_text'])
    /\ UNCHANGED session_title
    /\ UNCHANGED batchVars
    /\ UNCHANGED jobVars

NextText ==
    \/ CallRemoveLeadingBulletsAndNumbers
    \/ CallCleanText
    \/ CallFixEncodingIssues
    \/ CallInferPositionSummary

SpecText == InitText /\ [][NextText]_vars

\* ---------------------------------------------------------------------------
\* clean_text and remove_leading_bullets_and_numbers called on texts of several lines
\* ---------------------------------------------------------------------------

\* the texts of several lines, the texts of at most two parts, and the texts of two
\* parts as the second line of a text
CleanTexts ==
    LineTexts \cup Stacked(0) \cup Stacked(1) \cup Stacked(2)
    \cup {Chars("x\n") \o t : t \in Stacked(2)}

InitClean ==
    /\ input_file = [readable |-> FALSE, columns |-> {}, rows |-> <<>>]
    /\ pc = "session"
    /\ df_input = <<>>
    /\ index = 0
    /\ results = <<>>
    /\ skipped_rows = <<>>
    /\ processed_count = 0
    /\ printed = <<>>
    /\ traced = <<>>
    /\ output_file = <<>>
    /\ exit_code = 0
    /\ session_text \in CleanTexts
    /\ session_title = <<>>
    /\ session_calls = <<>>
    /\ JobsIdle

NextClean ==
    \/ CallCleanText
    \/ CallRemoveLeadingBulletsAndNumbers

SpecClean == InitClean /\ [][NextClean]_vars

\* ---------------------------------------------------------------------------
\* process_single_job called record after record on one instance
\* ---------------------------------------------------------------------------

\* the largest number of calls on the instance
MaxJobs == 3

\* descriptions with a section that another header follows
HeaderAfterFunctions ==
    Chars("ESSENTIAL FUNCTIONS:\nPrepare the weekly board reports\nKNOWLEDGE, SKILLS AND ABILITIES:\nAbility to read maps well")

HeaderAfterExperience ==
    Chars("EXPERIENCE:\n3 years of experience in teaching\nQUALIFICATIONS:\nMust hold 2 awards for experience")

QualificationsAfterFunctions ==
    Chars("ESSENTIAL FUNCTIONS:\nPrepare the weekly board reports\nQUALIFICATIONS:\nMust be kind to all the people")

\* descriptions with short sections
ShortSummaryAndEducation ==
    Chars("SUMMARY: Leads the front office team.\nEDUCATION: Bachelor's degree required.")

ShortDuties == Chars("ESSENTIAL DUTIES AND RESPONSIBILITIES: Manage inventory. Train staff.")

ShortBullets == Chars("ESSENTIAL FUNCTIONS:\n- Prepare reports\n- Supervise volunteers")

\* a description without any section
NoSection == Chars("Nothing here")

\* a description whose first SUMMARY is short and whose second is not
LaterSummary ==
    Chars("SUMMARY: short\nSUMMARY: This later summary is long enough to be substantive\nJOB GOAL: To lead the whole front office team every day\n")

\* a combined section whose only sentence about experience names a degree
CombinedWithDegree ==
    Chars("EDUCATION AND/OR EXPERIENCE: 3 years of experience with a bachelor degree\n")

\* sections that are the last thing of a description that does not end with a newline:
\* the header, the content and the local of process_single_job that holds the field
EndSections ==
    {[header |-> Chars("SUMMARY: "),
      content |-> Chars("This position leads the whole front office team"),
      field |-> "extracted_summary"],
     [header |-> Chars("ESSENTIAL FUNCTIONS: "),
      content |-> Chars("Prepare the monthly financial reports"),
      field |-> "essential_functions"]}

JobTexts ==
    {HeaderAfterFunctions, HeaderAfterExperience, QualificationsAfterFunctions,
     ShortSummaryAndEducation, ShortDuties, ShortBullets, NoSection, LaterSummary, <<>>,
     CombinedWithDegree}
    \cup {s.header \o s.content : s \in EndSections}

\* the row of a frame with both columns
Job(title, description) ==
    RowOf([title |-> StrValue(Chars(title)), description |-> StrValue(description)],
          {TitleColumn, DescriptionColumn})

\* the records given to process_single_job: every description under one title, some
\* under a second title or under the empty title
JobRows ==
    {Job("Clerk", d) : d \in JobTexts}
    \cup {Job("Warehouse Lead", ShortDuties),
          Job("Aide", QualificationsAfterFunctions),
          Job("Aide", HeaderAfterExperience),
          Job("Aide", ShortSummaryAndEducation),
          Job("", HeaderAfterFunctions)}

\* the locals of process_single_job on these records, tabulated
JobLocalsOf == [row \in JobRows |-> process_single_job_locals(row)] @@ <<>>

JobLocals(row) == IF row \in DOMAIN JobLocalsOf THEN JobLocalsOf[row] ELSE Locals(row)

\* the record whose locals a call on an instance with the given table returns. The
\* methods are translated for the table that __init__ builds; with another table a
\* call may return what it returns for any record
InstanceRow(table, row, any) == IF table = char_replacements THEN row ELSE any

InitJobs ==
    /\ input_file = [readable |-> FALSE, columns |-> {}, rows |-> <<>>]
    /\ pc = "jobs"
    /\ df_input = <<>>
    /\ index = 0
    /\ results = <<>>
    /\ skipped_rows = <<>>
    /\ processed_count = 0
    /\ printed = <<>>
    /\ traced = <<>>
    /\ output_file = <<>>
    /\ exit_code = 0
    /\ TextIdle
    /\ JobsIdle

\* process_single_job is called on a record and returns
CallProcessSingleJob ==
    /\ pc = "jobs"
    /\ Len(job_calls) < MaxJobs
    /\ \E row \in JobRows, any \in JobRows :
           job_calls' = Append(job_calls,
               [row |-> row,
                locals |-> JobLocals(InstanceRow(self_char_replacements, row, any))])
    /\ self_char_replacements' = char_replacements_after_call(self_char_replacements)
    /\ UNCHANGED <<worker_row, worker_pc, worker_locals>>
    /\ UNCHANGED batchVars
    /\ UNCHANGED textVars

NextJobs == CallProcessSingleJob

SpecJobs == InitJobs /\ [][NextJobs]_vars

\* ---------------------------------------------------------------------------
\* process_single_job run by one worker per record on a shared instance
\* ---------------------------------------------------------------------------

\* the number of records of the batch, and of workers
NumWorkers == 2

\* the records of the batches: one whose summary is inferred, one with experience
\* only, one whose summary is extracted
WorkerRows ==
    {Job("Clerk", QualificationsAfterFunctions),
     Job("Aide", HeaderAfterExperience),
     Job("Clerk", LaterSummary)}

WorkerTexts == {str(DescriptionCell(row)) : row \in WorkerRows}

\* the six calls of process_single_job in their order: the local assigned and the
\* method called on job_description
ExtractSteps == <<
    [local |-> "position_summary", method |-> "extract_position_summary"],
    [local |-> "education", method |-> "extract_education"],
    [local |-> "work_experience", method |-> "extract_work_experience"],
    [local |-> "essential_functions", method |-> "extract_essential_functions"],
    [local |-> "licenses_certifications", method |-> "extract_licenses_certifications"],
    [local |-> "knowledge_skills_abilities",
     method |-> "extract_knowledge_skills_abilities"] >>

\* the results of the six methods on the descriptions of the batches, tabulated
ExtractedOf ==
    [d \in WorkerTexts |->
        [k \in 1..Len(ExtractSteps) |-> call(ExtractSteps[k].method, <<d>>)]] @@ <<>>

Extracted(k, job_description) ==
    IF job_description \in DOMAIN ExtractedOf THEN ExtractedOf[job_description][k]
    ELSE call(ExtractSteps[k].method, <<job_description>>)

\* the locals of a call that has not assigned any
NoLocals ==
    [job_description |-> <<>>, job_title |-> <<>>, position_summary |-> <<>>,
     education |-> <<>>, work_experience |-> <<>>, essential_functions |-> <<>>,
     licenses_certifications |-> <<>>, knowledge_skills_abilities |-> <<>>,
     returned |-> <<>>]

\* where a call is: the number of its statements that have run
AfterCells == 1

AfterExtracts == AfterCells + Len(ExtractSteps)

AfterInfer == AfterExtracts + 1

Returned == AfterInfer + 1

\* a variant in which every call works on the locals of the first call
locals_of_first_call(frames, w) == frames[1]

\* the locals that the call of worker w works on: those of its own frame
locals_of_call(frames, w) == frames[w]

InitWorkers ==
    /\ input_file = [readable |-> FALSE, columns |-> {}, rows |-> <<>>]
    /\ pc = "workers"
    /\ df_input = <<>>
    /\ index = 0
    /\ results = <<>>
    /\ skipped_rows = <<>>
    /\ processed_count = 0
    /\ printed = <<>>
    /\ traced = <<>>
    /\ output_file = <<>>
    /\ exit_code = 0
    /\ TextIdle
    /\ self_char_replacements = char_replacements
    /\ job_calls = <<>>
    /\ worker_row \in [1..NumWorkers -> WorkerRows]
    /\ worker_pc = [w \in 1..NumWorkers |-> 0]
    /\ worker_locals = [w \in 1..NumWorkers |-> NoLocals]

\* a worker runs the first two statements: the cells of its row as strings
WorkerReadsCells ==
    /\ pc = "workers"
    /\ \E w \in 1..NumWorkers :
           /\ worker_pc[w] = 0
           /\ worker_locals' =
                  [worker_locals EXCEPT ![w] =
                      [locals_of_call(worker_locals, w) EXCEPT
                          !.job_description = str(row_get(worker_row[w], DescriptionColumn,
                                                          StrValue(<<>>))),
                          !.job_title = str(row_get(worker_row[w], TitleColumn,
                                                    StrValue(<<>>)))]]
           /\ worker_pc' = [worker_pc EXCEPT ![w] = AfterCells]
    /\ self_char_replacements' = self_char_replacements
    /\ UNCHANGED <<job_calls, worker_row>>
    /\ UNCHANGED batchVars
    /\ UNCHANGED textVars

\* a worker runs the next of the six extract statements on its job_description
WorkerExtracts ==
    /\ pc = "workers"
    /\ \E w \in 1..NumWorkers, any \in WorkerTexts :
           /\ worker_pc[w] \in AfterCells..(AfterExtracts - 1)
           /\ LET l == locals_of_call(worker_locals, w)
                  k == worker_pc[w] - AfterCells + 1
                  value == Extracted(k, InstanceRow(self_char_replacements,
                                                    l.job_description, any))
              IN  worker_locals' =
                      [worker_locals EXCEPT ![w] = [l EXCEPT ![ExtractSteps[k].local] = value]]
           /\ worker_pc' = [worker_pc EXCEPT ![w] = @ + 1]
    /\ self_char_replacements' = char_replacements_after_call(self_char_replacements)
    /\ UNCHANGED <<job_calls, worker_row>>
    /\ UNCHANGED batchVars
    /\ UNCHANGED textVars

\* a worker runs the inference statement
WorkerInfers ==
    /\ pc = "workers"
    /\ \E w \in 1..NumWorkers :
           /\ worker_pc[w] = AfterExtracts
           /\ LET l == locals_of_call(worker_locals, w)
              IN  worker_locals' =
                      [worker_locals EXCEPT ![w] =
                          IF ShouldInfer(l.position_summary, l.essential_functions)
                          THEN [l EXCEPT !.position_summary =
                                   infer_position_summary(l.essential_functions, l.job_title)]
                          ELSE l]
           /\ worker_pc' = [worker_pc EXCEPT ![w] = AfterInfer]
    /\ self_char_replacements' = char_replacements_after_call(self_char_replacements)
    /\ UNCHANGED <<job_calls, worker_row>>
    /\ UNCHANGED batchVars
    /\ UNCHANGED textVars

\* a worker builds the result from its locals and returns it
WorkerReturns ==
    /\ pc = "workers"
    /\ \E w \in 1..NumWorkers :
           /\ worker_pc[w] = AfterInfer
           /\ LET l == locals_of_call(worker_locals, w)
              IN  worker_locals' = [worker_locals EXCEPT ![w] = [l EXCEPT !.returned = result(l)]]
           /\ worker_pc' = [worker_pc EXCEPT ![w] = Returned]
    /\ self_char_replacements' = self_char_replacements
    /\ UNCHANGED <<job_calls, worker_row>>
    /\ UNCHANGED batchVars
    /\ UNCHANGED textVars

NextWorkers ==
    \/ WorkerReadsCells
    \/ WorkerExtracts
    \/ WorkerInfers
    \/ WorkerReturns

SpecWorkers == InitWorkers /\ [][NextWorkers]_vars

\* ---------------------------------------------------------------------------
\* extract_section of version 4 called on descriptions, each call on the result of
\* the one before
\* ---------------------------------------------------------------------------

\* sentences about an education, to put one after another in a description
EducationParts == <<Chars("Bachelor degree required."), Chars("BACHELOR DEGREE REQUIRED."),
                    Chars("Bachelor  degree required."), Chars("Master degree;")>>

SectionTexts ==
    {EducationParts[i] : i \in 1..Len(EducationParts)}
    \cup {EducationParts[i] \o <<" ">> \o EducationParts[j] :
             i \in 1..Len(EducationParts), j \in 1..Len(EducationParts)}
    \cup {Chars("Position Summary: Leads the office\nJOB GOAL: leads the  office!\n"),
          Chars("Education Requirements: Master degree\n"),
          <<>>}

\* the section types of the calls: two fields of section_patterns and a type that is
\* not a field
SectionTypes == {"position_summary", "education", "other"}

InitSections ==
    /\ input_file = [readable |-> FALSE, columns |-> {}, rows |-> <<>>]
    /\ pc = "sections"
    /\ df_input = <<>>
    /\ index = 0
    /\ results = <<>>
    /\ skipped_rows = <<>>
    /\ processed_count = 0
    /\ printed = <<>>
    /\ traced = <<>>
    /\ output_file = <<>>
    /\ exit_code = 0
    /\ session_text \in SectionTexts
    /\ session_title = <<>>
    /\ session_calls = <<>>
    /\ JobsIdle

\* extract_section is called on the current text, which its result replaces
CallExtractSection ==
    /\ pc = "sections"
    /\ Len(session_calls) < MaxCalls
    /\ \E section_type \in SectionTypes :
          /\ session_text' = extract_section(session_text, section_type)
          /\ session_calls' = Append(session_calls,
                                     [op |-> "extract_section", arg |-> session_text,
                                      section_type |-> section_type, out |-> session_text'])
    /\ UNCHANGED session_title
    /\ UNCHANGED batchVars
    /\ UNCHANGED jobVars

NextSections == CallExtractSection

SpecSections == InitSections /\ [][NextSections]_vars

\* ---------------------------------------------------------------------------
\* Properties
\* ---------------------------------------------------------------------------

\* transform_data has left its loop: the file is saved or the run has exited after
\* the file was read
BatchDone == input_file.readable /\ pc \in {"saved", "exited"}

\* the record of a row whose processing raised: the title of the row and six times ''
FallbackRecord(row) ==
    << <<"Job Description Name", StrValue(str(TitleCell(row)))>>,
       <<"Position Summary", StrValue(<<>>)>>,
       <<"Education", StrValue(<<>>)>>,
       <<"Work Experience", StrValue(<<>>)>>,
       <<"Essential Functions", StrValue(<<>>)>>,
       <<"Licenses and Certifications", StrValue(<<>>)>>,
       <<"Knowledge, Skills and Abilities", StrValue(<<>>)>> >>

\* the lines k at which process_single_job has raised: "Processing row n" was printed
\* and then "Error processing row n"
RaisedAt(k) ==
    /\ k \in 2..Len(printed)
    /\ printed[k].msg = "Error processing row"
    /\ printed[k - 1] = Line("Processing row", printed[k].row)

\* the place in results of the record of row n when no row before it has shifted:
\* n less the rows left out before it
PlaceOf(n) == n - Cardinality({m \in Range(skipped_rows) : m < n})

\* C1: when transform_data has gone through a batch, results has exactly as many
\* records as the batch has rows, rows with an empty title and description included.
C1_CountPreservation == BatchDone => Len(results) = Len(df_input)

\* C2: when transform_data has gone through a batch, for every index i the i-th record
\* of results is the one of the i-th row: its 'Job Description Name' is the title of
\* that row.
C2_PositionalCorrespondence ==
    BatchDone =>
        \A i \in 1..Len(df_input) :
            /\ i <= Len(results)
            /\ Field(results[i], "Job Description Name") = StrValue(str(TitleCell(df_input[i])))

\* C3: whenever process_single_job has raised for a row, results holds for that row
\* the record with the title of the row and six empty strings, the row is not among
\* the rows left out, and the loop goes on: when transform_data is through, every row
\* of the batch has been taken up.
C3_ExceptionRecovery ==
    /\ \A k \in 1..Len(printed) :
           RaisedAt(k) =>
               LET n == printed[k].row
               IN  /\ n \notin Range(skipped_rows)
                   /\ PlaceOf(n) \in 1..Len(results)
                   /\ results[PlaceOf(n)] = FallbackRecord(df_input[n])
    /\ (BatchDone /\ \E k \in 1..Len(printed) : RaisedAt(k)) =>
           \A n \in 1..Len(df_input) : \E k \in 1..Len(printed) : printed[k].row = n

\* C3 witness: process_single_job has raised for a row, a later row has been processed
\* and the file is saved.
C3_Witness ==
    /\ pc = "saved"
    /\ \E k \in 1..Len(printed) :
           /\ RaisedAt(k)
           /\ \E j \in (k + 1)..Len(printed) :
                  /\ printed[j].msg = "Processing row"
                  /\ printed[j].row > printed[k].row
                  /\ ~RaisedAt(j + 1)

\* C4: once the file has been read, transform_data never exits, whatever the batch
\* holds: not for a batch of no rows, not for a batch whose rows are all left out.
C4_OnlyReadFailuresAreFatal == input_file.readable => (exit_code = 0 /\ pc # "exited")

\* C5: when a required column is missing from the file, transform_data prints the
\* warning, takes the column as '' for every row, writes one record for every row and
\* ends without exiting.
C5_MissingColumnsNotFatal ==
    (BatchDone /\ missing_columns(input_file.columns) # <<>>) =>
        /\ Line("Warning: Missing required columns", 0) \in Range(printed)
        /\ pc = "saved"
        /\ exit_code = 0
        /\ Len(output_file) = Len(df_input)

\* whether a record has the seven keys in their order and a string for every value
WellFormed(record) ==
    /\ Len(record) = Len(column_order)
    /\ \A j \in 1..Len(column_order) :
           /\ record[j][1] = column_order[j]
           /\ record[j][2].t = "str"

\* C6: every record of results, from process_single_job or from the fallback, has
\* exactly the seven keys in their order and a string for every value, whatever the
\* types of the cells of its row; so has every row written to the output file.
C6_FixedRecordShape ==
    /\ \A k \in 1..Len(results) : WellFormed(results[k])
    /\ \A k \in 1..Len(output_file) :
           /\ Len(output_file[k]) = Len(column_order)
           /\ \A j \in 1..Len(column_order) : output_file[k][j].t = "str"

\* C6 witness: a file with numeric titles is saved with a record from
\* process_single_job and a record from the fallback.
C6_Witness ==
    /\ pc = "saved"
    /\ traced # <<>>
    /\ \E k \in 1..Len(printed) : RaisedAt(k)
    /\ \E n \in 1..Len(df_input) : TitleCell(df_input[n]).t = "int"

\* C7: in every call of process_single_job, infer_position_summary is called if and
\* only if the extracted summary is empty and the extracted essential functions are
\* not, with these functions and the title; an extracted summary is the summary of
\* the record.
C7_InferencePrecondition ==
    \A k \in 1..Len(traced) :
        LET l == traced[k].locals
        IN  /\ (l.infer_calls # <<>>) <=>
                   (l.extracted_summary = <<>> /\ l.essential_functions # <<>>)
            /\ \A c \in 1..Len(l.infer_calls) :
                   l.infer_calls[c] = [essential_functions |-> l.essential_functions,
                                       job_title |-> l.job_title]
            /\ l.extracted_summary # <<>> =>
                   /\ l.position_summary = l.extracted_summary
                   /\ Field(results[PlaceOf(traced[k].row)], "Position Summary")
                        = StrValue(l.extracted_summary)

\* C7 witness: one call has inferred the summary, another has kept the summary it
\* extracted although it had essential functions.
C7_Witness ==
    /\ \E k \in 1..Len(traced) : traced[k].locals.infer_calls # <<>>
    /\ \E k \in 1..Len(traced) :
           /\ traced[k].locals.extracted_summary # <<>>
           /\ traced[k].locals.essential_functions # <<>>

\* C8: for every text of essential functions that is not empty and every title, the
\* summary that infer_position_summary returns contains the title.
C8_SummaryContainsTitle ==
    \A k \in 1..Len(session_calls) :
        (session_calls[k].op = "infer_position_summary" /\ session_calls[k].arg # <<>>) =>
            Contains(session_calls[k].out, session_title)

\* C9: clean_text is idempotent: called on a result of clean_text it returns that
\* text unchanged.
C9_CleanTextIdempotent ==
    \A k \in 2..Len(session_calls) :
        (session_calls[k].op = "clean_text" /\ session_calls[k - 1].op = "clean_text") =>
            session_calls[k].out = session_calls[k].arg

\* C10: fix_encoding_issues turns every sequence of its table into the character the
\* table gives for it: no entry is rewritten in part by a shorter entry before it.
C10_EncodingRepairOrder ==
    \A k \in 1..Len(session_calls) :
        session_calls[k].op = "fix_encoding_issues" =>
            \A i \in 1..Len(char_replacements) :
                session_calls[k].arg = char_replacements[i][1] =>
                    session_calls[k].out = char_replacements[i][2]

\* the parts that are line markers: a bullet, a letter, a number
LineMarkers == {MarkerParts[1], MarkerParts[2], MarkerParts[3]}

\* C11: remove_leading_bullets_and_numbers takes at most one marker, the leftmost, off
\* a line: of a line that starts with two markers only the first is removed and the
\* second stays; a line that is empty after stripping is dropped.
C11_OneMarkerPerLine ==
    \A k \in 1..Len(session_calls) :
        session_calls[k].op = "remove_leading_bullets_and_numbers" =>
            /\ \A m1 \in LineMarkers, m2 \in LineMarkers :
                   session_calls[k].arg = m1 \o m2 \o <<"x">> =>
                       session_calls[k].out = m2 \o <<"x">>
            /\ session_calls[k].arg \in LineMarkers => session_calls[k].out = <<>>

\* the description that a call of process_single_job was given
DescriptionOf(job) == str(DescriptionCell(job.row))

\* the title that a call of process_single_job was given
TitleOf(job) == str(TitleCell(job.row))

\* sections that a different header follows: the description, the field of the
\* section, the later header and the content under it
FollowedSections == <<
    [description |-> HeaderAfterFunctions, field |-> "essential_functions",
     header |-> Chars("KNOWLEDGE, SKILLS AND ABILITIES:"),
     content |-> Chars("Ability to read maps well")],
    [description |-> HeaderAfterExperience, field |-> "work_experience",
     header |-> Chars("QUALIFICATIONS:"),
     content |-> Chars("Must hold 2 awards for experience")],
    [description |-> QualificationsAfterFunctions, field |-> "essential_functions",
     header |-> Chars("QUALIFICATIONS:"),
     content |-> Chars("Must be kind to all the people")] >>

\* C12: when the section of a field is followed by the header of a different section,
\* the value extracted for the field contains neither that header nor the content
\* under it.
C12_BoundaryRespect ==
    \A k \in 1..Len(job_calls) :
        \A i \in 1..Len(FollowedSections) :
            DescriptionOf(job_calls[k]) = FollowedSections[i].description =>
                /\ ~Contains(job_calls[k].locals[FollowedSections[i].field],
                             FollowedSections[i].header)
                /\ ~Contains(job_calls[k].locals[FollowedSections[i].field],
                             FollowedSections[i].content)

C14_InterleavingIndependence ==
    \A w \in 1..Len(worker_pc) :
        worker_pc[w] = Returned =>
            worker_locals[w].returned = result(JobLocals(worker_row[w]))

\* C14 witness: two workers have different records; one has returned its record, with
\* an inferred summary, while the call of the other, begun before, is under way.
C14_Witness ==
    \E v \in 1..Len(worker_pc), w \in 1..Len(worker_pc) :
        /\ worker_row[v] # worker_row[w]
        /\ worker_pc[v] = Returned
        /\ Field(worker_locals[v].returned, "Position Summary")
             # StrValue(JobLocals(worker_row[v]).extracted_summary)
        /\ worker_pc[w] \in (AfterCells + 1)..(AfterExtracts - 1)

\* the locals that process_single_job assigns from the description alone
DescriptionFields ==
    {"extracted_summary", "education", "work_experience", "essential_functions",
     "licenses_certifications", "knowledge_skills_abilities"}

\* C15: in process_single_job the extracted fields depend on the description only: two
\* calls with the same description agree on them whatever their titles. The summary of
\* the record is the extracted one when there is one; otherwise it depends on the
\* essential functions and the title only.
C15_FieldIndependence ==
    \A j \in 1..Len(job_calls), k \in 1..Len(job_calls) :
        LET a == job_calls[j].locals
            b == job_calls[k].locals
        IN  /\ DescriptionOf(job_calls[j]) = DescriptionOf(job_calls[k]) =>
                   \A f \in DescriptionFields : a[f] = b[f]
            /\ a.extracted_summary # <<>> => a.position_summary = a.extracted_summary
            /\ (/\ a.extracted_summary = <<>>
                /\ b.extracted_summary = <<>>
                /\ a.essential_functions = b.essential_functions
                /\ a.job_title = b.job_title) => a.position_summary = b.position_summary

\* C15 witness: two calls have the same description and different titles, with
\* essential functions and summaries inferred from them that differ; a third call has
\* extracted an education and no functions, and has an empty summary.
C15_Witness ==
    /\ \E j \in 1..Len(job_calls), k \in 1..Len(job_calls) :
           /\ DescriptionOf(job_calls[j]) = DescriptionOf(job_calls[k])
           /\ TitleOf(job_calls[j]) # TitleOf(job_calls[k])
           /\ job_calls[j].locals.essential_functions # <<>>
           /\ job_calls[j].locals.infer_calls # <<>>
           /\ job_calls[j].locals.position_summary # job_calls[k].locals.position_summary
    /\ \E k \in 1..Len(job_calls) :
           /\ job_calls[k].locals.education # <<>>
           /\ job_calls[k].locals.essential_functions = <<>>
           /\ job_calls[k].locals.position_summary = <<>>

\* C16: for the description 'SUMMARY: Leads the front office team.\nEDUCATION:
\* Bachelor's degree required.' the record has the Position Summary 'Leads the front
\* office team' and the Education 'Bachelor's degree required'.
C16_ShortSummaryAndEducation ==
    \A k \in 1..Len(job_calls) :
        DescriptionOf(job_calls[k]) = ShortSummaryAndEducation =>
            /\ job_calls[k].locals.position_summary = Chars("Leads the front office team")
            /\ job_calls[k].locals.education = Chars("Bachelor's degree required")

\* C17: for the description 'ESSENTIAL DUTIES AND RESPONSIBILITIES: Manage inventory.
\* Train staff.' and the title 'Warehouse Lead' the record has the Position Summary
\* 'The Warehouse Lead is responsible for manage inventory and train staff.'
C17_InferredFromShortDuties ==
    \A k \in 1..Len(job_calls) :
        (/\ DescriptionOf(job_calls[k]) = ShortDuties
         /\ TitleOf(job_calls[k]) = Chars("Warehouse Lead")) =>
            job_calls[k].locals.position_summary =
                Chars("The Warehouse Lead is responsible for manage inventory and train staff.")

\* C18: for the list '- Prepare reports\n- Supervise volunteers' under an Essential
\* Functions header the Essential Functions are the two lines 'Prepare reports' and
\* 'Supervise volunteers'.
C18_BulletedFunctions ==
    \A k \in 1..Len(job_calls) :
        DescriptionOf(job_calls[k]) = ShortBullets =>
            job_calls[k].locals.essential_functions =
                Chars("Prepare reports\nSupervise volunteers")

\* the descriptions that no rule matches
NoRuleTexts == {<<>>, NoSection}

\* the record with the given title and six empty fields
EmptyRecord(title) ==
    << <<"Job Description Name", StrValue(title)>>,
       <<"Position Summary", StrValue(<<>>)>>,
       <<"Education", StrValue(<<>>)>>,
       <<"Work Experience", StrValue(<<>>)>>,
       <<"Essential Functions", StrValue(<<>>)>>,
       <<"Licenses and Certifications", StrValue(<<>>)>>,
       <<"Knowledge, Skills and Abilities", StrValue(<<>>)>> >>

\* C19: when no rule matches the description, as for the empty description under the
\* title 'Clerk', process_single_job returns a record: the title as it was given and
\* the empty string for every one of the six fields.
C19_AbsentFieldSignal ==
    \A k \in 1..Len(job_calls) :
        DescriptionOf(job_calls[k]) \in NoRuleTexts =>
            result(job_calls[k].locals) = EmptyRecord(job_calls[k].row[TitleColumn].v)

\* C19 witness: process_single_job has returned for the empty description under the
\* title 'Clerk' and for a description without any section.
C19_Witness ==
    /\ \E k \in 1..Len(job_calls) : job_calls[k].row = Job("Clerk", <<>>)
    /\ \E k \in 1..Len(job_calls) : job_calls[k].row = Job("Clerk", NoSection)

RECURSIVE FirstSubstantive(_, _, _)
\* first match wins as it is claimed, from rule i on: the first rule with an
\* occurrence whose cleaned text is longer than the threshold, and that occurrence
FirstSubstantive(patterns, i, job_description) ==
    IF i > Len(patterns) THEN [found |-> FALSE]
    ELSE LET occurrences == re_findall(patterns[i], job_description, IgnoreCaseDotAll)
             substantive == SelectSeq(occurrences,
                                      LAMBDA m : Len(clean_text(m)) > SummaryMinLen)
         IN  IF substantive # <<>>
             THEN [found |-> TRUE, value |-> clean_text(substantive[1])]
             ELSE FirstSubstantive(patterns, i + 1, job_description)

\* C20: extract_position_summary returns the match of the first rule, in the order of
\* the list, that has some occurrence whose cleaned text is longer than 30, and that
\* match alone: a rule whose first occurrence is too short and whose later occurrence
\* is long enough wins over the rules after it.
C20_FirstMatchWins ==
    \A k \in 1..Len(job_calls) :
        LET claimed == FirstSubstantive(summary_patterns, 1,
                                        fix_encoding_issues(DescriptionOf(job_calls[k])))
        IN  claimed.found => job_calls[k].locals.extracted_summary = claimed.value

\* the text compared without regard to letter case and white space
NormalKey(text) == SelectSeq(lower(text), LAMBDA c : c \notin Whitespace)

RECURSIVE FirstSeen(_, _)
\* the cleaned parts that are not empty, each kept at its first place only, two parts
\* being the same when their texts are equal up to letter case and white space
FirstSeen(parts, kept) ==
    IF parts = <<>> THEN kept
    ELSE LET cleaned == clean_text_v4(Head(parts))
         IN  IF cleaned # <<>> /\ \A i \in 1..Len(kept) : NormalKey(kept[i]) # NormalKey(cleaned)
             THEN FirstSeen(Tail(parts), Append(kept, cleaned))
             ELSE FirstSeen(Tail(parts), kept)

\* the separators of the fields: the newline and the semicolon
FieldSeparators == {<<"\n">>, <<";">>, Chars("; ")}

\* C21: extract_section returns the matches of all the rules of the field, each match
\* once under equality up to letter case and white space of the cleaned text, in the
\* order in which they were first seen and joined with the separator of the field: two
\* matches that differ in letter case or spacing only are in the result once.
C21_AccumulateAllUnique ==
    \A k \in 1..Len(session_calls) :
        LET c == session_calls[k]
            parts == ExtractedParts(section_patterns[c.section_type], 1,
                                    fix_encoding_issues_v4(c.arg))
        IN  (/\ c.op = "extract_section"
             /\ c.section_type \in DOMAIN section_patterns
             /\ parts # <<>>) =>
                \E sep \in FieldSeparators : c.out = join(sep, FirstSeen(parts, <<>>))

\* C22: the value of extract_work_experience never holds a word of the education
\* vocabulary, 'bachelor', 'master', 'degree' or 'diploma', in any letter case: not
\* when it comes from the patterns, and not when it comes from the combined section
\* EDUCATION AND/OR EXPERIENCE.
C22_NoEducationVocabulary ==
    \A k \in 1..Len(job_calls) :
        \A i \in 1..Len(EducationVocabulary) :
            ~Contains(lower(job_calls[k].locals.work_experience),
                      Chars(EducationVocabulary[i]))

\* C23: a section whose header matches and that no header follows runs to the end of
\* the text, also when the text does not end with a newline: the field then holds the
\* content of the section.
C23_EndOfTextBoundary ==
    \A k \in 1..Len(job_calls) :
        \A s \in EndSections :
            DescriptionOf(job_calls[k]) = s.header \o s.content =>
                job_calls[k].locals[s.field] = s.content

\* the items of an essential-functions text that qualify: the lines that are longer
\* than 20 characters once stripped
QualifyingItems(essential_functions) ==
    SelectSeq(split(essential_functions, <<"\n">>),
              LAMBDA line : Len(strip(line)) > KeyFunctionMinLen)

\* C24: when infer_position_summary is given essential functions that are not empty
\* and of which no item is longer than 20 characters (and a title), it returns a
\* sentence that is not empty.
C24_InferenceFallback ==
    \A k \in 1..Len(session_calls) :
        (/\ session_calls[k].op = "infer_position_summary"
         /\ session_title # <<>>
         /\ session_calls[k].arg # <<>>
         /\ QualifyingItems(session_calls[k].arg) = <<>>) =>
            session_calls[k].out # <<>>

\* the punctuation that ends a sentence
TerminalPunctuation == {".", "!", "?"}

RECURSIVE WithoutTerminal(_)
\* the text without the terminal punctuation at its end, all of it
WithoutTerminal(text) ==
    IF text # <<>> /\ text[Len(text)] \in TerminalPunctuation
    THEN WithoutTerminal(SubSeq(text, 1, Len(text) - 1))
    ELSE text

\* the sentence of infer_position_summary for the given items
InferredSentence(job_title, items) ==
    Chars("*The ") \o job_title \o Chars(" is responsible for ") \o items[1]
    \o (IF Len(items) >= 2 THEN Chars(" and ") \o items[2] ELSE <<>>) \o <<".">>

\* C25: the items in the inferred summary are the first items of the essential
\* functions that qualify, in their order and wherever they are in the text (also
\* after three items that are too short), each in lower case and without any of the
\* terminal punctuation at its end.
C25_InferenceItemSelection ==
    \A k \in 1..Len(session_calls) :
        LET items == QualifyingItems(session_calls[k].arg)
        IN  (/\ session_calls[k].op = "infer_position_summary"
             /\ session_title # <<>>
             /\ items # <<>>) =>
                session_calls[k].out =
                    InferredSentence(session_title,
                        [i \in 1..Len(items) |-> WithoutTerminal(lower(strip(items[i])))])

\* C26: the text that clean_text returns neither begins nor ends with a character that
\* is not a word character: a '.' or ':' at the end, a ')' at the start are removed.
C26_ArtifactTrim ==
    \A k \in 1..Len(session_calls) :
        (/\ session_calls[k].op = "clean_text"
         /\ session_calls[k].out # <<>>) =>
            /\ Head(session_calls[k].out) \in WordSet
            /\ session_calls[k].out[Len(session_calls[k].out)] \in WordSet

\* C27: after the construction of the extractor no call changes the substitution
\* table: in every state of a run of transform_data, whatever rows process_single_job
\* and the methods it calls have worked on, the table is the one that __init__ built.
C27_ImmutableConfiguration == self_char_replacements = char_replacements

\* C27 witness: transform_data has saved its output after process_single_job returned
\* for two rows, one with an extracted and one with an inferred summary.
C27_Witness ==
    /\ pc = "saved"
    /\ \E j \in 1..Len(traced), k \in 1..Len(traced) :
           /\ traced[j].locals.extracted_summary # <<>>
           /\ traced[k].locals.infer_calls # <<>>
    /\ self_char_replacements = char_replacements

\* the rows that the loop has visited and whose cells are both empty once stripped
EmptyRows ==
    {n \in 1..index :
        /\ ~StrRaises(TitleCell(df_input[n]))
        /\ ~StrRaises(DescriptionCell(df_input[n]))
        /\ strip(str(TitleCell(df_input[n]))) = <<>>
        /\ strip(str(DescriptionCell(df_input[n]))) = <<>>}

\* the rows for which the processing and the construction of the fallback record have
\* both raised
TwiceRaisedRows ==
    {n \in 1..index :
        /\ Line("Error processing row", n) \in Range(printed)
        /\ Line("Could not create basic result", n) \in Range(printed)}

\* C28: in the loop of transform_data, after each iteration, processed_count is the
\* number of records, the records and the skipped rows together are the rows visited,
\* and the skipped rows are the rows whose title and description are both empty once
\* stripped and the rows for which processing and fallback both raised.
C28_RowAccounting ==
    pc \in {"rows", "saved", "exited"} =>
        /\ processed_count = Len(results)
        /\ Len(results) + Len(skipped_rows) = index
        /\ Range(skipped_rows) = EmptyRows \cup TwiceRaisedRows
        /\ Cardinality(Range(skipped_rows)) = Len(skipped_rows)

\* C28 witness: the loop has visited three rows: it has skipped one whose cells are
\* both empty, process_single_job has returned for one and has raised for one, whose
\* fallback record is in the results.
C28_Witness ==
    /\ pc = "rows"
    /\ index = 3
    /\ Len(skipped_rows) = 1
    /\ Len(traced) = 1
    /\ Len(results) = 2
    /\ \E k \in 1..Len(printed) : RaisedAt(k)

\* the text on one line: the encoding fixed, every run of white space made one space,
\* no white space at the ends
OnOneLine(text) == strip(re_sub(WhitespaceRunRe, <<" ">>, fix_encoding_issues(text), NoFlags))

Inferring(job) ==
    /\ job.locals.extracted_summary = <<>>
    /\ job.locals.essential_functions # <<>>

\* C30: when process_single_job applies inference, the Position Summary is empty if
\* the title is empty, and otherwise is not empty and begins with the marker '*',
\* 'The ' and the title; a summary that was extracted is the Position Summary as it
\* is, without a marker put before it.
C30_InferredSummaryShape ==
    \A k \in 1..Len(job_calls) :
        LET l == job_calls[k].locals
        IN  /\ Inferring(job_calls[k]) =>
                   IF l.job_title = <<>> THEN l.position_summary = <<>>
                   ELSE /\ l.position_summary # <<>>
                        /\ StartsAt(l.position_summary, 1, Chars("*The ") \o l.job_title)
            /\ l.extracted_summary # <<>> =>
                   /\ l.position_summary = l.extracted_summary
                   /\ l.infer_calls = <<>>

\* C30 witness: process_single_job has applied inference under the empty title and
\* under the title 'Clerk', and has returned an extracted summary for a third record.
C30_Witness ==
    /\ \E k \in 1..Len(job_calls) :
           Inferring(job_calls[k]) /\ job_calls[k].locals.job_title = <<>>
    /\ \E k \in 1..Len(job_calls) :
           /\ Inferring(job_calls[k])
           /\ job_calls[k].locals.position_summary
                  = Chars("*The Clerk is responsible for prepare the weekly board reports.")
    /\ \E k \in 1..Len(job_calls) : job_calls[k].locals.extracted_summary # <<>>

====
